---- MODULE Spec2Model ----
(***************************************************************************)
(* A model of terraform-provider-zfs (internal/provider): the property     *)
(* engine (updatePropertiesInState, applyPropertyDiff), the entity         *)
(* lifecycle operations (createDataset, createPool, renamePool) and the    *)
(* resource handlers that call them.                                       *)
(*                                                                         *)
(* Text (property names, property values, command lines) is a sequence of  *)
(* one-character strings, so that strings.Contains, strings.HasPrefix,     *)
(* fmt.Sprintf and shellescape.Quote are computed, not assumed.            *)
(***************************************************************************)
EXTENDS Integers, Sequences, FiniteSets, TLC

VARIABLES
    ups,    \* one call of updatePropertiesInState: its ResourceData and arguments
    apd,    \* one call of applyPropertyDiff: its arguments, the commands it issued
    cre,    \* one call of createDataset / createPool
    ren,    \* one resourcePoolUpdate that renames: renamePool's position and the pool
    res,    \* a filesystem resource: configuration, stored state, remote host
    hnd,    \* one handler call (a read, a create probe, a delete) and the remote host
    ssh,    \* one call of callSshCommand: what ssh.Run returned, what the call returns
    cls,    \* one call of isPoolProperty: the name and the answer
    lay,    \* one call of describePool on a pool listing, and the state written
    rac,    \* one Update and a rename of its resource from outside the provider
    rdp     \* one call of readAllProperties: what the remote prints, the map it fills

vars == <<ups, apd, cre, ren, res, hnd, ssh, cls, lay, rac, rdp>>

\* ------------------------------------------------------------------ bounds

\* Most observed properties in one property map.
MaxObserved == 2
\* Most property blocks in one declared set.
MaxDeclared == 1
\* Most property blocks in the prior declared set of one applyPropertyDiff.
MaxPrior == 2

\* -------------------------------------------------------------------- text

Str_empty == <<>>
Str_compression == <<"c", "o", "m", "p", "r", "e", "s", "s", "i", "o", "n">>
Str_usertag == <<"u", ":", "t", "a", "g">>
Str_userquota == <<"u", "s", "e", "r", "q", "u", "o", "t", "a", "@", "u">>
Str_ashift == <<"a", "s", "h", "i", "f", "t">>
Str_mountpoint == <<"m", "o", "u", "n", "t", "p", "o", "i", "n", "t">>
Str_unsafe == <<"x", ";", "i", "d">>
Str_on == <<"o", "n">>
Str_off == <<"o", "f", "f">>
Str_4K == <<"4", "K">>
Str_4096 == <<"4", "0", "9", "6">>
Str_none == <<"n", "o", "n", "e">>
Str_legacy == <<"l", "e", "g", "a", "c", "y">>
Str_mnt == <<"/", "m", "n", "t">>
Str_a_b == <<"a", " ", "b">>
Str_zfs == <<"z", "f", "s">>
Str_zpool == <<"z", "p", "o", "o", "l">>
Str_all == <<"a", "l", "l">>
Str_colon == <<":">>
Str_comma == <<",">>
Str_space == <<" ">>
Str_eq == <<"=">>
Str_squote == <<"'">>
Str_squote_escaped == <<"'", "\"", "'", "\"", "'">>
Str_feature_at == <<"f", "e", "a", "t", "u", "r", "e", "@">>
Str_quota_at == <<"q", "u", "o", "t", "a", "@">>
Str_tank == <<"t", "a", "n", "k">>
Str_tank_ds == <<"t", "a", "n", "k", "/", "d", "s">>
Str_newtank == <<"n", "e", "w", "t", "a", "n", "k">>
Str_type == <<"t", "y", "p", "e">>
Str_guid == <<"g", "u", "i", "d">>
Str_filesystem == <<"f", "i", "l", "e", "s", "y", "s", "t", "e", "m">>
Str_volume == <<"v", "o", "l", "u", "m", "e">>
Str_snapshot == <<"s", "n", "a", "p", "s", "h", "o", "t">>
Str_101 == <<"1", "0", "1">>
Str_100 == <<"1", "0", "0">>
Str_202 == <<"2", "0", "2">>
Str_opt_s == <<" ", "-", "s">>
Str_opt_V == <<" ", "-", "V", " ">>
Str_1G == <<"1", "G">>
Str_dev_a == <<"/", "d", "e", "v", "/", "a">>
Str_dev_b == <<"/", "d", "e", "v", "/", "b">>
Str_mirror == <<"m", "i", "r", "r", "o", "r">>
Str_mirror_0 == <<"m", "i", "r", "r", "o", "r", "-", "0">>
Str_zfs_rename == <<"z", "f", "s", " ", "r", "e", "n", "a", "m", "e", " ">>
Str_chown == <<"c", "h", "o", "w", "n">>
Str_chgrp == <<"c", "h", "g", "r", "p">>
Str_zed == <<"z", "e", "d">>
Str_stat == <<"s", "t", "a", "t", " ", "-", "c", " ", "'", "%", "U", ",", "%", "G", ",", "%", "u", ",", "%", "g", "'", " ", "'">>
Str_tank_old == <<"t", "a", "n", "k", "/", "o", "l", "d">>
Str_zfs_set == <<"z", "f", "s", " ", "s", "e", "t", " ">>
Str_eq_none == <<"=", "n", "o", "n", "e">>
Str_zfs_inherit == <<"z", "f", "s", " ", "i", "n", "h", "e", "r", "i", "t", " ", "-", "S", " ">>
Str_set == <<" ", "s", "e", "t", " ">>
Str_get_formatted == <<" ", "g", "e", "t", " ", "-", "H", " ", "-", "o", " ", "p", "r", "o", "p", "e", "r", "t", "y", ",", "s", "o", "u", "r", "c", "e", ",", "v", "a", "l", "u", "e", " ">>
Str_get_parsable == <<" ", "g", "e", "t", " ", "-", "H", "p", " ", "-", "o", " ", "p", "r", "o", "p", "e", "r", "t", "y", ",", "v", "a", "l", "u", "e", " ">>
Str_zfs_create == <<"z", "f", "s", " ", "c", "r", "e", "a", "t", "e", " ">>
Str_zpool_create == <<"z", "p", "o", "o", "l", " ", "c", "r", "e", "a", "t", "e", " ">>
Str_opt_o == <<" ", "-", "o", " ">>
Str_opt_O == <<" ", "-", "O", " ">>
Str_zpool_export == <<"z", "p", "o", "o", "l", " ", "e", "x", "p", "o", "r", "t", " ">>
Str_zpool_import == <<"z", "p", "o", "o", "l", " ", "i", "m", "p", "o", "r", "t", " ">>
Str_list == <<" ", "l", "i", "s", "t", " ", "-", "H", " ", "-", "o", " ", "n", "a", "m", "e", ",", "g", "u", "i", "d">>
Str_zfs_destroy == <<"z", "f", "s", " ", "d", "e", "s", "t", "r", "o", "y", " ", "-", "r", " ">>
Str_zpool_destroy == <<"z", "p", "o", "o", "l", " ", "d", "e", "s", "t", "r", "o", "y", " ">>
Str_space_mirror == <<" ", "m", "i", "r", "r", "o", "r">>
Str_dataset_does_not_exist == <<"d", "a", "t", "a", "s", "e", "t", " ", "d", "o", "e", "s", " ", "n", "o", "t", " ", "e", "x", "i", "s", "t">>
Str_no_such_pool == <<"n", "o", " ", "s", "u", "c", "h", " ", "p", "o", "o", "l">>
Str_zpool_does_not_exist == <<"z", "p", "o", "o", "l", " ", "d", "o", "e", "s", " ", "n", "o", "t", " ", "e", "x", "i", "s", "t">>
Str_command_timed_out == <<"c", "o", "m", "m", "a", "n", "d", " ", "t", "i", "m", "e", "d", " ", "o", "u", "t">>
Str_cannot_open_dataset == <<"c", "a", "n", "n", "o", "t", " ", "o", "p", "e", "n", " ", "'", "t", "a", "n", "k", "/", "d", "s", "'", ":", " ", "d", "a", "t", "a", "s", "e", "t", " ", "d", "o", "e", "s", " ", "n", "o", "t", " ", "e", "x", "i", "s", "t">>
Str_cannot_open_pool == <<"c", "a", "n", "n", "o", "t", " ", "o", "p", "e", "n", " ", "'", "t", "a", "n", "k", "'", ":", " ", "n", "o", " ", "s", "u", "c", "h", " ", "p", "o", "o", "l">>
Str_both_messages == <<"n", "o", " ", "s", "u", "c", "h", " ", "p", "o", "o", "l", ";", " ", "d", "a", "t", "a", "s", "e", "t", " ", "d", "o", "e", "s", " ", "n", "o", "t", " ", "e", "x", "i", "s", "t">>
Str_permission_denied == <<"p", "e", "r", "m", "i", "s", "s", "i", "o", "n", " ", "d", "e", "n", "i", "e", "d">>
Str_Dataset_capital == <<"D", "a", "t", "a", "s", "e", "t", " ", "d", "o", "e", "s", " ", "n", "o", "t", " ", "e", "x", "i", "s", "t">>
Str_EOF == <<"E", "O", "F">>
Str_tank_line == <<"t", "a", "n", "k", "	", "1", "0", "1">>
Str_feature_encryption == <<"f", "e", "a", "t", "u", "r", "e", "@", "e", "n", "c", "r", "y", "p", "t", "i", "o", "n">>
Str_feature == <<"f", "e", "a", "t", "u", "r", "e">>
Str_xfeature_at == <<"x", "f", "e", "a", "t", "u", "r", "e", "@", "a">>
Str_quota == <<"q", "u", "o", "t", "a">>
Str_readonly == <<"r", "e", "a", "d", "o", "n", "l", "y">>
Str_autoreplace == <<"a", "u", "t", "o", "r", "e", "p", "l", "a", "c", "e">>
Str_autoexpand == <<"a", "u", "t", "o", "e", "x", "p", "a", "n", "d">>
Str_s == <<"s">>
Str_zpool_list_HPv == <<"z", "p", "o", "o", "l", " ", "l", "i", "s", "t", " ", "-", "H", "P", "v", " ">>

\* strings.HasPrefix
HasPrefix(s, prefix) ==
    /\ Len(s) >= Len(prefix)
    /\ SubSeq(s, 1, Len(prefix)) = prefix

\* strings.Contains
Contains(s, substr) ==
    \E i \in 1..(Len(s) - Len(substr) + 1) : SubSeq(s, i, i + Len(substr) - 1) = substr

\* strings.ReplaceAll for a one-character pattern
RECURSIVE ReplaceAll(_, _, _)
ReplaceAll(s, old, new) ==
    IF s = <<>> THEN <<>>
    ELSE (IF <<Head(s)>> = old THEN new ELSE <<Head(s)>>) \o ReplaceAll(Tail(s), old, new)

\* strings.Join
RECURSIVE Join(_, _)
Join(elems, sep) ==
    IF elems = <<>> THEN <<>>
    ELSE IF Len(elems) = 1 THEN elems[1]
    ELSE elems[1] \o sep \o Join(Tail(elems), sep)

\* The characters shellescape leaves alone: [\w@%+=:,./-]
SafeChars ==
    { "a", "b", "c", "d", "e", "f", "g", "h", "i", "j", "k", "l", "m",
      "n", "o", "p", "q", "r", "s", "t", "u", "v", "w", "x", "y", "z",
      "A", "B", "C", "D", "E", "F", "G", "H", "I", "J", "K", "L", "M",
      "N", "O", "P", "Q", "R", "S", "T", "U", "V", "W", "X", "Y", "Z",
      "0", "1", "2", "3", "4", "5", "6", "7", "8", "9", "_",
      "@", "%", "+", "=", ":", ",", ".", "/", "-" }

\* shellescape.Quote: '' for the empty string; a string holding a character
\* outside SafeChars is wrapped in single quotes, each ' in it written '"'"'.
Quote(s) ==
    IF Len(s) = 0 THEN Str_squote \o Str_squote
    ELSE IF \E i \in 1..Len(s) : s[i] \notin SafeChars
         THEN Str_squote \o ReplaceAll(s, Str_squote, Str_squote_escaped) \o Str_squote
         ELSE s

\* One order of a finite set, as a sequence (Go's map and schema.Set orders).
RECURSIVE SetToSeq(_)
SetToSeq(S) ==
    IF S = {} THEN <<>>
    ELSE LET x == CHOOSE y \in S : TRUE IN <<x>> \o SetToSeq(S \ {x})

\* ------------------------------------------------------- property model

SourceLocal == "local"
SourceDefault == "default"
SourceInherited == "inherited"
SourceTemporary == "temporary"
SourceReceived == "received"
SourceNone == "none"

poolProperties ==
  << <<"a", "l", "l", "o", "c", "a", "t", "e", "d">>,
     <<"a", "l", "t", "r", "o", "o", "t">>,
     <<"a", "s", "h", "i", "f", "t">>,
     <<"a", "u", "t", "o", "e", "x", "p", "a", "n", "d">>,
     <<"a", "u", "t", "o", "r", "e", "p", "l", "a", "c", "e">>,
     <<"a", "u", "t", "o", "t", "r", "i", "m">>,
     <<"b", "o", "o", "t", "f", "s">>,
     <<"c", "a", "c", "h", "e", "f", "i", "l", "e">>,
     <<"c", "a", "p", "a", "c", "i", "t", "y">>,
     <<"c", "h", "e", "c", "k", "p", "o", "i", "n", "t">>,
     <<"c", "o", "m", "m", "e", "n", "t">>,
     <<"c", "o", "m", "p", "a", "t", "i", "b", "i", "l", "i", "t", "y">>,
     <<"d", "e", "d", "u", "p", "r", "a", "t", "i", "o">>,
     <<"d", "e", "l", "e", "g", "a", "t", "i", "o", "n">>,
     <<"e", "x", "p", "a", "n", "d", "s", "i", "z", "e">>,
     <<"f", "a", "i", "l", "m", "o", "d", "e">>,
     <<"f", "r", "a", "g", "m", "e", "n", "t", "a", "t", "i", "o", "n">>,
     <<"f", "r", "e", "e">>,
     <<"f", "r", "e", "e", "i", "n", "g">>,
     <<"g", "u", "i", "d">>,
     <<"h", "e", "a", "l", "t", "h">>,
     <<"l", "e", "a", "k", "e", "d">>,
     <<"l", "i", "s", "t", "s", "n", "a", "p", "s", "h", "o", "t", "s">>,
     <<"l", "o", "a", "d", "_", "g", "u", "i", "d">>,
     <<"m", "u", "l", "t", "i", "h", "o", "s", "t">>,
     <<"r", "e", "a", "d", "o", "n", "l", "y">>,
     <<"s", "i", "z", "e">>,
     <<"v", "e", "r", "s", "i", "o", "n">> >>

\* A classification by 'feature@' anywhere in the name.
isPoolProperty_FeatureAnywhere(property) ==
    \/ \E i \in 1..Len(poolProperties) : property = poolProperties[i]
    \/ Contains(property, Str_feature_at)

isPoolProperty(property) ==
    \/ \E i \in 1..Len(poolProperties) : property = poolProperties[i]
    \/ HasPrefix(property, Str_feature_at)

\* type Property struct
Property(source, value, rawValue) ==
    [source |-> source, value |-> value, rawValue |-> rawValue]

\* One "property" block of the schema: a name and a value.
Block(name, value) == [name |-> name, value |-> value]

BlockNames(blocks) == {b.name : b \in blocks}

\* A Go map read: the zero value "" for a missing key.
MapGet(m, key) == IF key \in DOMAIN m THEN m[key] ELSE Str_empty

\* parsePropertyBlocks: the blocks as a map from name to value.
parsePropertyBlocks(options) ==
    [n \in BlockNames(options) |-> (CHOOSE b \in options : b.name = n).value]

flattenProperties(properties) == [n \in DOMAIN properties |-> properties[n].value]

flattenRawProperties(properties) == [n \in DOMAIN properties |-> properties[n].rawValue]

NoError == [type |-> "nil"]

\* An error built by fmt.Errorf.
ErrorOf(type, msg) == [type |-> type, msg |-> msg]

\* The error callSshCommand returns for a command: one of its error types,
\* and the command it came from (each error is an object of its own).
CommandError(type, cmd) == [type |-> type, cmd |-> cmd]

\* The error types callSshCommand builds.
FailTypes == {"StderrError", "SshConnectError", "DatasetError", "PoolError"}

\* No command fails.
NoFail == [at |-> 0, type |-> "StderrError"]

\* Which command of a call fails (at = 0: none) and how.
Failures(n) == {NoFail} \cup [at : 1..n, type : FailTypes]

\* The oracle seen by a step that follows n commands.
Shift(fail, n) == [fail EXCEPT !.at = IF fail.at > n THEN fail.at - n ELSE 0]

\* Every order of a finite set.
Perms(S) ==
    {s \in [1..Cardinality(S) -> S] : \A i, j \in 1..Cardinality(S) : i # j => s[i] # s[j]}

\* -------------------------------------------- updatePropertiesInState

\* property_mode as the ResourceData holds it; Unset is "not set by the user".
Unset == "(unset)"

\* propertyModeSchema.Default
PropertyModeDefault == "defined"

\* d.Get("property_mode"): the schema's default when the attribute is not set.
GetPropertyMode(d) ==
    IF d.property_mode = Unset THEN PropertyModeDefault ELSE d.property_mode

\* case "all": the property is skipped (continue) unless it is overridden on
\* the resource and is not a pool property.
ModeAllSkips(name, property) ==
    \/ (property.source # SourceLocal /\ property.source # SourceTemporary)
    \/ isPoolProperty(name)

ModeSkips_DefinedFallsThrough(mode, name, property) ==
    CASE mode = "defined" -> ModeAllSkips(name, property)
      [] mode = "native"  -> Contains(name, Str_colon) \/ ModeAllSkips(name, property)
      [] mode = "all"     -> ModeAllSkips(name, property)
      [] OTHER            -> FALSE

ModeSkips_NativeKeepsUser(mode, name, property) ==
    CASE mode = "defined" -> TRUE
      [] mode = "native"  -> ModeAllSkips(name, property)
      [] mode = "all"     -> ModeAllSkips(name, property)
      [] OTHER            -> FALSE

\* The switch on mode for a name that is not declared: TRUE when the loop
\* continues without writing a block ("native" falls through to "all").
ModeSkips(mode, name, property) ==
    CASE mode = "defined" -> TRUE
      [] mode = "native"  -> Contains(name, Str_colon) \/ ModeAllSkips(name, property)
      [] mode = "all"     -> ModeAllSkips(name, property)
      [] OTHER            -> FALSE

\* The default branch of the switch: reached only for an undeclared name.
ModeInvalid(mode) == mode \notin {"defined", "native", "all"}

StateBlock_AlwaysFormatted(name, property, defined) ==
    Block(name, property.value)

\* The block written for a kept name: the raw value when the declared value
\* equals it, the formatted value otherwise.
StateBlock(name, property, defined) ==
    Block(name, IF MapGet(defined, name) = property.rawValue
                THEN property.rawValue
                ELSE property.value)

\* updatePropertiesInState(d, properties, ignoredProperties): the new
\* ResourceData and the error. The loop is over a Go map; neither the set of
\* blocks nor whether the default branch is reached depends on its order.
updatePropertiesInState(d, properties, ignoredProperties) ==
    LET d1 == [d EXCEPT !.properties = flattenProperties(properties),
                        !.raw_properties = flattenRawProperties(properties)]
        defined == parsePropertyBlocks(d.property)
        mode == GetPropertyMode(d)
        visited == {name \in DOMAIN properties : name \notin ignoredProperties}
        undeclared == {name \in visited : name \notin DOMAIN defined}
        kept == {name \in visited :
                    \/ name \in DOMAIN defined
                    \/ ~ModeSkips(mode, name, properties[name])}
    IN  IF ModeInvalid(mode) /\ undeclared # {}
        THEN [err |-> ErrorOf("error", "invalid value for property_mode"), d |-> d1]
        ELSE [err |-> NoError,
              d |-> [d1 EXCEPT !.property =
                        {StateBlock(name, properties[name], defined) : name \in kept}]]

\* ------------------------------------------------------------- inputs

Idle == [pc |-> "idle"]

\* Property names of the four kinds the engine tells apart, and the override.
PropNames == {Str_compression, Str_usertag, Str_ashift, Str_mountpoint}

\* Observed properties: overridden or not, formatted equal to raw or not, and
\* one that the parsable fetch did not list, whose rawValue is left "".
PropertyChoices ==
    { Property(SourceLocal, Str_on, Str_on),
      Property(SourceTemporary, Str_off, Str_off),
      Property(SourceInherited, Str_on, Str_on),
      Property(SourceLocal, Str_4K, Str_4096),
      Property(SourceLocal, Str_on, Str_empty) }

DeclaredValues == {Str_on, Str_4096}

Modes == {Unset, "defined", "native", "all", "everything"}

\* Every map from at most n of the names to the values.
MapsUpTo(names, values, n) ==
    UNION {[dom -> values] : dom \in {s \in SUBSET names : Cardinality(s) <= n}}

BlocksOf(m) == {Block(name, m[name]) : name \in DOMAIN m}

\* Declared sets with one block per name.
DeclaredSets(names, n) == {BlocksOf(m) : m \in MapsUpTo(names, DeclaredValues, n)}

ObservedMaps == MapsUpTo(PropNames, PropertyChoices, MaxObserved)

EmptyMap == [n \in {} |-> Str_empty]

\* ---------------------------------------------------------- SpecState

InitState ==
    /\ ups \in [pc : {"call"},
                d : [property : DeclaredSets(PropNames, MaxDeclared),
                     property_mode : Modes,
                     properties : {EmptyMap},
                     raw_properties : {EmptyMap}],
                properties : ObservedMaps,
                ignoredProperties : {{}, {Str_mountpoint}},
                before : {{}},
                err : {NoError}]
    /\ apd = Idle
    /\ cre = Idle
    /\ ren = Idle
    /\ res = Idle
    /\ hnd = Idle
    /\ ssh = Idle
    /\ cls = Idle
    /\ lay = Idle
    /\ rac = Idle
    /\ rdp = Idle

UpdatePropertiesInState ==
    /\ ups.pc = "call"
    /\ LET r == updatePropertiesInState(ups.d, ups.properties, ups.ignoredProperties)
       IN ups' = [ups EXCEPT !.pc = "done", !.d = r.d, !.err = r.err,
                             !.before = ups.d.property]
    /\ UNCHANGED <<apd, cre, ren, res, hnd, ssh, cls, lay, rac, rdp>>

NextState == UpdatePropertiesInState

SpecState == InitState /\ [][NextState]_vars

\* ------------------------------------------------- claims on SpecState

\* The names of PropNames that hold a ':' (user properties), and those that are
\* pool properties, written out.
UserPropertyNames == {Str_usertag}

PoolPropertyNames == {Str_ashift}

\* The blocks the call wrote whose name was not declared before it.
SynthesizedBlocks == {b \in ups.d.property : b.name \notin BlockNames(ups.before)}

ExpectedSynthesized(mode) ==
    {name \in DOMAIN ups.properties :
        /\ name \notin BlockNames(ups.before)
        /\ name \notin ups.ignoredProperties
        /\ name \notin PoolPropertyNames
        /\ ups.properties[name].source \in {SourceLocal, SourceTemporary}
        /\ (mode = "native" => name \notin UserPropertyNames)}

\* C5: in property_mode native or all the synthesized blocks are exactly the
\* observed properties that are undeclared, not ignored, not pool properties,
\* of source local or temporary and, in native only, without ':' in the name.
C5_NativeAllSynthesizeExactly ==
    (ups.pc = "done" /\ ups.d.property_mode \in {"native", "all"})
        => /\ ups.err = NoError
           /\ BlockNames(SynthesizedBlocks) = ExpectedSynthesized(ups.d.property_mode)

\* native mode with an overridden user property and an overridden native
\* property observed, both undeclared: only the native one is synthesized.
C5_Witness ==
    /\ ups.pc = "done"
    /\ ups.d.property_mode = "native"
    /\ ups.before = {}
    /\ ups.ignoredProperties = {}
    /\ DOMAIN ups.properties = {Str_usertag, Str_compression}
    /\ ups.properties[Str_usertag].source = SourceLocal
    /\ ups.properties[Str_compression].source = SourceTemporary
    /\ BlockNames(ups.d.property) = {Str_compression}

\* C6 as stated: in property_mode defined the declared set after the call is
\* exactly the set before it (every name, every value).
C6_DefinedPassThrough ==
    (ups.pc = "done" /\ ups.d.property_mode = "defined")
        => ups.d.property = ups.before

\* C6 amended: in property_mode defined the names after the call are the
\* declared names that are observed and not ignored; each block's value is
\* the observed formatted or raw value, and it is the declared value whenever
\* the declared value equals either of the two.
C6_DefinedRefreshesDeclared ==
    (ups.pc = "done" /\ ups.d.property_mode = "defined")
        => /\ BlockNames(ups.d.property) =
                (BlockNames(ups.before) \cap DOMAIN ups.properties) \ ups.ignoredProperties
           /\ \A b \in ups.d.property :
                LET observed == ups.properties[b.name]
                    declared == (CHOOSE o \in ups.before : o.name = b.name).value
                IN  /\ b.value \in {observed.value, observed.rawValue}
                    /\ declared \in {observed.value, observed.rawValue} => b.value = declared

\* defined mode, a declared property whose raw observed value is the declared
\* one while the formatted value differs: the block keeps the declared value.
C6_Witness ==
    /\ ups.pc = "done"
    /\ ups.d.property_mode = "defined"
    /\ ups.before = {Block(Str_compression, Str_4096)}
    /\ Str_compression \in DOMAIN ups.properties
    /\ ups.properties[Str_compression] = Property(SourceLocal, Str_4K, Str_4096)
    /\ ups.d.property = {Block(Str_compression, Str_4096)}

\* C7 as stated: the call returns an error for every property_mode outside
\* {defined, native, all}, whatever is observed, declared and ignored.
C7_InvalidModeAlwaysError ==
    (ups.pc = "done" /\ GetPropertyMode(ups.d) \notin {"defined", "native", "all"})
        => ups.err # NoError

\* The value the claim gives the block of a name: the observed rawValue when
\* the name was declared with that value, the formatted value otherwise.
ExpectedStored(name) ==
    IF Block(name, ups.properties[name].rawValue) \in ups.before
    THEN ups.properties[name].rawValue
    ELSE ups.properties[name].value

\* C20: every block the call writes, declared before or synthesized, stores
\* the observed rawValue when the declared value of its name equals the
\* observed rawValue, and the observed formatted value otherwise; a
\* synthesized block stores the formatted value.
C20_StoredRawWhenDeclaredRaw ==
    (ups.pc = "done" /\ ups.err = NoError)
        => \A b \in ups.d.property : b.value = ExpectedStored(b.name)

\* --------------------------------------------------- applyPropertyDiff

\* One remote command: the command line, what it asks of the remote, and the
\* user-declared texts that were substituted into the line.
Cmd(text, verb, name, value, args) ==
    [text |-> text, verb |-> verb, name |-> name, value |-> value, args |-> args]

\* getResetCommand, were it to inherit the quotas as it does the others.
getResetCommand_AlwaysInherit(property) ==
    IF isPoolProperty(property)
    THEN [result |-> Str_empty, verb |-> "none", ok |-> FALSE]
    ELSE [result |-> Str_zfs_inherit \o Quote(property), verb |-> "inherit", ok |-> TRUE]

getResetCommand(property) ==
    IF isPoolProperty(property)
    THEN [result |-> Str_empty, verb |-> "none", ok |-> FALSE]
    ELSE IF Contains(property, Str_quota_at)
         THEN [result |-> Str_zfs_set \o Quote(property) \o Str_eq_none,
               verb |-> "setnone", ok |-> TRUE]
         ELSE [result |-> Str_zfs_inherit \o Quote(property),
               verb |-> "inherit", ok |-> TRUE]

\* The override names that a block of the new declared set also carries.
OverrideConflicts(overrideProperties, newProperties) ==
    {name \in DOMAIN overrideProperties : name \in BlockNames(newProperties)}

\* newProperties.Add for every override.
InjectOverrides(overrideProperties, newProperties) ==
    newProperties \cup {Block(name, overrideProperties[name]) : name \in DOMAIN overrideProperties}

\* oldProperties.Difference(newProperties): schema.Set tells blocks apart by
\* name and value.
removedProperties(oldProperties, newProperties) ==
    parsePropertyBlocks(oldProperties \ newProperties)

RemovedNames(overrideProperties, oldProperties, newProperties) ==
    DOMAIN removedProperties(oldProperties, InjectOverrides(overrideProperties, newProperties))

DesiredNames(overrideProperties, newProperties) ==
    BlockNames(InjectOverrides(overrideProperties, newProperties))

\* The first loop: one reset command for each removed name that has one.
RECURSIVE ResetCommands(_, _)
ResetCommands(order, targetName) ==
    IF order = <<>> THEN <<>>
    ELSE LET r == getResetCommand(Head(order))
         IN  (IF r.ok
              THEN <<Cmd(r.result \o Str_space \o targetName, r.verb, Head(order), Str_empty,
                         {Head(order)})>>
              ELSE <<>>)
             \o ResetCommands(Tail(order), targetName)

ActualValue(actualProperties, name) ==
    IF name \in DOMAIN actualProperties THEN actualProperties[name].value ELSE Str_empty

\* The second loop, were it to compare with the observed rawValue.
RECURSIVE SetCommands_CompareRaw(_, _, _, _)
SetCommands_CompareRaw(order, desiredProperties, actualProperties, targetName) ==
    IF order = <<>> THEN <<>>
    ELSE LET name == Head(order)
             value == desiredProperties[name]
             baseCommand == IF isPoolProperty(name) THEN Str_zpool ELSE Str_zfs
             actual == IF name \in DOMAIN actualProperties
                       THEN actualProperties[name].rawValue ELSE Str_empty
         IN  (IF value # actual
              THEN <<Cmd(baseCommand \o Str_set \o Quote(name) \o Str_eq \o Quote(value)
                            \o Str_space \o targetName,
                         "set", name, value, {name, value})>>
              ELSE <<>>)
             \o SetCommands_CompareRaw(Tail(order), desiredProperties, actualProperties,
                                       targetName)

\* The second loop: one set command for each desired name whose value is not
\* the observed formatted value.
RECURSIVE SetCommands(_, _, _, _)
SetCommands(order, desiredProperties, actualProperties, targetName) ==
    IF order = <<>> THEN <<>>
    ELSE LET name == Head(order)
             value == desiredProperties[name]
             baseCommand == IF isPoolProperty(name) THEN Str_zpool ELSE Str_zfs
         IN  (IF value # ActualValue(actualProperties, name)
              THEN <<Cmd(baseCommand \o Str_set \o Quote(name) \o Str_eq \o Quote(value)
                            \o Str_space \o targetName,
                         "set", name, value, {name, value})>>
              ELSE <<>>)
             \o SetCommands(Tail(order), desiredProperties, actualProperties, targetName)

\* The commands of a call in which none fails: resetOrder and setOrder are the
\* orders in which Go walks the two maps.
PropertyDiffCommands(targetName, actualProperties, overrideProperties, oldProperties, newProperties, resetOrder, setOrder) ==
    ResetCommands(resetOrder, targetName)
    \o SetCommands(setOrder,
                   parsePropertyBlocks(InjectOverrides(overrideProperties, newProperties)),
                   actualProperties, targetName)

applyPropertyDiff_CheckAfterReset(targetName, actualProperties, overrideProperties, oldProperties, newProperties, resetOrder, setOrder, fail) ==
    LET resets == ResetCommands(resetOrder, targetName)
    IN  IF OverrideConflicts(overrideProperties, newProperties) # {}
        THEN [err |-> ErrorOf("error", "don't set as a property block, use the dedicated attribute instead"),
              cmds |-> resets]
        ELSE [err |-> NoError,
              cmds |-> PropertyDiffCommands(targetName, actualProperties, overrideProperties,
                                            oldProperties, newProperties, resetOrder, setOrder)]

\* applyPropertyDiff, were it to go on with the remaining commands after one
\* of them failed.
applyPropertyDiff_ContinueOnError(targetName, actualProperties, overrideProperties, oldProperties, newProperties, resetOrder, setOrder, fail) ==
    LET all == PropertyDiffCommands(targetName, actualProperties, overrideProperties,
                                    oldProperties, newProperties, resetOrder, setOrder)
    IN  IF OverrideConflicts(overrideProperties, newProperties) # {}
        THEN [err |-> ErrorOf("error", "don't set as a property block, use the dedicated attribute instead"),
              cmds |-> <<>>]
        ELSE IF fail.at \in 1..Len(all)
        THEN [err |-> CommandError(fail.type, all[fail.at].text), cmds |-> all]
        ELSE [err |-> NoError, cmds |-> all]

\* applyPropertyDiff: the error and the commands issued, the failing one last.
applyPropertyDiff(targetName, actualProperties, overrideProperties, oldProperties, newProperties, resetOrder, setOrder, fail) ==
    LET all == PropertyDiffCommands(targetName, actualProperties, overrideProperties,
                                    oldProperties, newProperties, resetOrder, setOrder)
    IN  IF OverrideConflicts(overrideProperties, newProperties) # {}
        THEN [err |-> ErrorOf("error", "don't set as a property block, use the dedicated attribute instead"),
              cmds |-> <<>>]
        ELSE IF fail.at \in 1..Len(all)
        THEN [err |-> CommandError(fail.type, all[fail.at].text), cmds |-> SubSeq(all, 1, fail.at)]
        ELSE [err |-> NoError, cmds |-> all]

\* ------------------------------------------------- effect of commands

\* What the set and reset commands do to the answers of zfs get and zpool
\* get, and the other commands to the remote host.

\* zfs prints 4096 as 4K; -p prints the number.
Formatted(value) == IF value = Str_4096 THEN Str_4K ELSE value

Raw(value) == IF value = Str_4K THEN Str_4096 ELSE value

MapPut(m, key, value) == [n \in DOMAIN m \cup {key} |-> IF n = key THEN value ELSE m[n]]

MapDel(m, key) == [n \in DOMAIN m \ {key} |-> m[n]]

\* After 'set name=value': the property is local.
SetAnswer(answers, name, value) ==
    LET property == Property(SourceLocal, Formatted(value), Raw(value))
    IN  IF Contains(name, Str_quota_at)
        THEN [answers EXCEPT !.extra = MapPut(@, name, property)]
        ELSE [answers EXCEPT !.all = MapPut(@, name, property)]

\* The value the datasets of the host take by inheritance.
InheritedValue == Str_off

\* After 'inherit -S name': a user property is gone, a native one is no
\* longer local and has the inherited value.
InheritAnswer(answers, name) ==
    IF name \notin DOMAIN answers.all THEN answers
    ELSE IF Contains(name, Str_colon) THEN [answers EXCEPT !.all = MapDel(@, name)]
    ELSE [answers EXCEPT !.all[name] = Property(SourceDefault, InheritedValue, InheritedValue)]

Effect(remote, cmd) ==
    CASE cmd.verb = "set" /\ isPoolProperty(cmd.name) ->
            [remote EXCEPT !.zpool = SetAnswer(@, cmd.name, cmd.value)]
      [] cmd.verb = "set" /\ ~isPoolProperty(cmd.name) ->
            [remote EXCEPT !.zfs = SetAnswer(@, cmd.name, cmd.value)]
      [] cmd.verb = "setnone" ->
            [remote EXCEPT !.zfs.extra =
                MapPut(@, cmd.name, Property(SourceNone, Str_none, Str_none))]
      [] cmd.verb = "inherit" ->
            [remote EXCEPT !.zfs = InheritAnswer(@, cmd.name)]
      [] cmd.verb = "rename" -> [remote EXCEPT !.name = cmd.value]
      [] cmd.verb = "export" -> [remote EXCEPT !.status = "exported"]
      [] cmd.verb = "import" -> [remote EXCEPT !.status = "available", !.name = cmd.value]
      [] OTHER -> remote

RECURSIVE ApplyAll(_, _)
ApplyAll(remote, cmds) ==
    IF cmds = <<>> THEN remote ELSE ApplyAll(Effect(remote, Head(cmds)), Tail(cmds))

\* The commands of a call that succeeded: all but a failing last one.
Succeeded(r) ==
    IF r.err.type \in FailTypes THEN SubSeq(r.cmds, 1, Len(r.cmds) - 1) ELSE r.cmds

\* ----------------------------------------------------------- SpecDiff

\* The overrides the resources pass: none (pool), or the mountpoint.
OverrideChoices ==
    {EmptyMap, [n \in {Str_mountpoint} |-> Str_mnt]}

DiffNames == {Str_compression, Str_userquota, Str_ashift, Str_mountpoint}

\* Observed properties of the target: the source plays no part in the diff.
ActualNames == {Str_compression, Str_ashift}

ActualChoices ==
    {Property(SourceLocal, Str_on, Str_on), Property(SourceLocal, Str_4K, Str_4096)}

\* The remote target whose description is actualProperties: zpool get answers
\* the pool properties, zfs get the others.
TargetOf(actualProperties) ==
    LET pool == {n \in DOMAIN actualProperties : isPoolProperty(n)}
    IN  [zfs |-> [all |-> [n \in DOMAIN actualProperties \ pool |-> actualProperties[n]],
                  extra |-> EmptyMap],
         zpool |-> [all |-> [n \in pool |-> actualProperties[n]], extra |-> EmptyMap]]

InitDiff ==
    /\ \E actualProperties \in MapsUpTo(ActualNames, ActualChoices, MaxDeclared) :
          apd \in [pc : {"call"},
                   targetName : {Str_tank_ds},
                   actualProperties : {actualProperties},
                   overrideProperties : OverrideChoices,
                   oldProperties : DeclaredSets(DiffNames, MaxPrior),
                   newProperties : DeclaredSets(DiffNames, MaxDeclared),
                   err : {NoError},
                   cmds : {<<>>},
                   remote : {TargetOf(actualProperties)}]
    /\ ups = Idle
    /\ cre = Idle
    /\ ren = Idle
    /\ res = Idle
    /\ hnd = Idle
    /\ ssh = Idle
    /\ cls = Idle
    /\ lay = Idle
    /\ rac = Idle
    /\ rdp = Idle

ApplyPropertyDiff ==
    /\ apd.pc = "call"
    /\ \E resetOrder \in Perms(RemovedNames(apd.overrideProperties, apd.oldProperties, apd.newProperties)),
          setOrder \in Perms(DesiredNames(apd.overrideProperties, apd.newProperties)) :
         \E fail \in Failures(Len(PropertyDiffCommands(apd.targetName, apd.actualProperties,
                                    apd.overrideProperties, apd.oldProperties,
                                    apd.newProperties, resetOrder, setOrder))) :
            LET r == applyPropertyDiff(apd.targetName, apd.actualProperties,
                                       apd.overrideProperties, apd.oldProperties,
                                       apd.newProperties, resetOrder, setOrder, fail)
            IN apd' = [apd EXCEPT !.pc = "done", !.err = r.err, !.cmds = r.cmds,
                                  !.remote = ApplyAll(@, Succeeded(r))]
    /\ UNCHANGED <<ups, cre, ren, res, hnd, ssh, cls, lay, rac, rdp>>

NextDiff == ApplyPropertyDiff

SpecDiff == InitDiff /\ [][NextDiff]_vars

\* -------------------------------------------------- claims on SpecDiff

\* C8: when a name of the new declared set is the name of an override
\* property, applyPropertyDiff returns a configuration error and issues no
\* remote command, neither a reset nor a set.
C8_OverrideConflictNoCommand ==
    (apd.pc = "done" /\ BlockNames(apd.newProperties) \cap DOMAIN apd.overrideProperties # {})
        => (apd.err.type = "error" /\ apd.cmds = <<>>)

\* mountpoint is declared as a property block while it is an override, and
\* the prior declared set holds a name that would otherwise be reset.
C8_Witness ==
    /\ apd.pc = "done"
    /\ apd.newProperties = {Block(Str_mountpoint, Str_on)}
    /\ Str_mountpoint \in DOMAIN apd.overrideProperties
    /\ apd.oldProperties = {Block(Str_compression, Str_on)}
    /\ apd.err.type = "error"
    /\ apd.cmds = <<>>

\* The positions of the reset commands and of the set commands of a call.
ResetPositions(cmds) == {i \in 1..Len(cmds) : cmds[i].verb \in {"inherit", "setnone"}}

SetPositions(cmds) == {i \in 1..Len(cmds) : cmds[i].verb = "set"}

IssuedResets(cmds) == {cmds[i].name : i \in ResetPositions(cmds)}

IssuedSets(cmds) == {cmds[i].name : i \in SetPositions(cmds)}

\* The new declared set after the overrides are injected, as a map.
Desired == parsePropertyBlocks(InjectOverrides(apd.overrideProperties, apd.newProperties))

\* C16: a reset command ('zfs inherit -S <name>' or 'zfs set <name>=none')
\* is issued only for names of the prior declared set that are absent from
\* the new declared set after override injection; a name in both sets, even
\* with a changed value, gets no reset.
C16_ResetsOnlyAbsentNames ==
    apd.pc = "done" =>
        IssuedResets(apd.cmds) \subseteq (BlockNames(apd.oldProperties) \ DOMAIN Desired)

\* What the remote target answers for a name once the call is over.
RemoteRaw(remote, name) ==
    IF name \in DOMAIN remote.zfs.all THEN remote.zfs.all[name].rawValue
    ELSE IF name \in DOMAIN remote.zfs.extra THEN remote.zfs.extra[name].rawValue
    ELSE IF name \in DOMAIN remote.zpool.all THEN remote.zpool.all[name].rawValue
    ELSE Str_empty

\* Every reset command of the call comes before every set command.
ResetsBeforeSets ==
    \A i \in ResetPositions(apd.cmds), j \in SetPositions(apd.cmds) : i < j

\* C17: every reset command of a call is issued before any set command, and
\* a name that the call resets and that the new declared set declares ends,
\* when the call returns no error, with the newly declared value.
C17_ResetThenDeclaredValue ==
    apd.pc = "done" =>
        /\ ResetsBeforeSets
        /\ apd.err = NoError =>
              \A name \in IssuedResets(apd.cmds) \cap DOMAIN Desired :
                  RemoteRaw(apd.remote, name) = Raw(Desired[name])

\* The names of the new declared set, overrides included, whose declared
\* value is not the observed formatted value; a name that is not observed
\* has the value "".
Differing ==
    {name \in DOMAIN Desired :
        Desired[name] # (IF name \in DOMAIN apd.actualProperties
                         THEN apd.actualProperties[name].value ELSE Str_empty)}

\* '<base> set <name>=<value> <target>'.
SetText(name, value, target) ==
    (IF isPoolProperty(name) THEN Str_zpool ELSE Str_zfs)
        \o Str_set \o name \o Str_eq \o value \o Str_space \o target

\* C18: the set commands of a call are '<base> set <name>=<value> <target>'
\* with the declared value, base zpool for a pool property and zfs
\* otherwise, at most one for a name, and none for a name whose declared
\* value equals the observed formatted value; a call that returns no error
\* has issued one for every name whose declared value differs.
C18_SetExactlyDiffering ==
    apd.pc = "done" =>
        /\ IssuedSets(apd.cmds) \subseteq Differing
        /\ \A i, j \in SetPositions(apd.cmds) :
              apd.cmds[i].name = apd.cmds[j].name => i = j
        /\ \A i \in SetPositions(apd.cmds) :
              apd.cmds[i].text
                  = SetText(apd.cmds[i].name, Desired[apd.cmds[i].name], apd.targetName)
        /\ apd.err = NoError => Differing \subseteq IssuedSets(apd.cmds)

\* compression is declared with the value it is observed to have and gets
\* no set; the injected mountpoint is not observed and gets the only set.
C18_Witness ==
    /\ apd.pc = "done"
    /\ apd.err = NoError
    /\ apd.newProperties = {Block(Str_compression, Str_on)}
    /\ Str_compression \in DOMAIN apd.actualProperties
    /\ apd.actualProperties[Str_compression].value = Str_on
    /\ Str_mountpoint \in DOMAIN apd.overrideProperties
    /\ apd.oldProperties = {}
    /\ Len(apd.cmds) = 1
    /\ apd.cmds[1].text = SetText(Str_mountpoint, Str_mnt, apd.targetName)

\* The reset command of a name: 'zfs set <name>=none <target>' for a name
\* with quota@ in it, 'zfs inherit -S <name> <target>' for another.
ResetText(name, target) ==
    IF Contains(name, Str_quota_at)
    THEN Str_zfs_set \o Quote(name) \o Str_eq_none \o Str_space \o target
    ELSE Str_zfs_inherit \o Quote(name) \o Str_space \o target

\* The names of the prior declared set that the new declared set, overrides
\* included, no longer has.
NoLongerDeclared == BlockNames(apd.oldProperties) \ DOMAIN Desired

\* C19: a reset command is never for a pool property and is 'zfs set
\* <name>=none <target>' for a name with quota@ in it and 'zfs inherit -S
\* <name> <target>' for any other; in a call that returns no error a removed
\* pool property gets no command and keeps its remote value, and every
\* other removed name gets its reset command.
C19_ResetChosenByName ==
    apd.pc = "done" =>
        /\ \A i \in ResetPositions(apd.cmds) :
              /\ ~isPoolProperty(apd.cmds[i].name)
              /\ apd.cmds[i].text = ResetText(apd.cmds[i].name, apd.targetName)
              /\ apd.cmds[i].verb = "setnone" <=> Contains(apd.cmds[i].name, Str_quota_at)
        /\ apd.err = NoError =>
              \A name \in NoLongerDeclared :
                  IF isPoolProperty(name)
                  THEN /\ \A i \in 1..Len(apd.cmds) : apd.cmds[i].name # name
                       /\ RemoteRaw(apd.remote, name)
                              = (IF name \in DOMAIN apd.actualProperties
                                 THEN apd.actualProperties[name].rawValue ELSE Str_empty)
                  ELSE \E i \in ResetPositions(apd.cmds) :
                          apd.cmds[i].text = ResetText(name, apd.targetName)

\* The pool property ashift and a user quota are removed together: the only
\* command is the quota's 'set =none', and ashift is as it was observed.
C19_Witness ==
    /\ apd.pc = "done"
    /\ apd.err = NoError
    /\ BlockNames(apd.oldProperties) = {Str_ashift, Str_userquota}
    /\ apd.newProperties = {}
    /\ apd.overrideProperties = EmptyMap
    /\ Str_ashift \in DOMAIN apd.actualProperties
    /\ Len(apd.cmds) = 1
    /\ apd.cmds[1].text
          = Str_zfs_set \o Str_userquota \o Str_eq_none \o Str_space \o apd.targetName
    /\ RemoteRaw(apd.remote, Str_ashift) = apd.actualProperties[Str_ashift].rawValue

\* ------------------------------------------------------- property read

\* A nil pointer.
Nil == [nil |-> TRUE]

Range(s) == {s[i] : i \in DOMAIN s}

\* properties[name].value, with Go's zero value for a missing key.
ValueOf(properties, name) ==
    IF name \in DOMAIN properties THEN properties[name].value ELSE Str_empty

\* The names of an answer that the formatted fetch prints, and those the
\* parsable fetch prints: a row is printed by both unless it says which.
FormattedRows(answer) ==
    {n \in DOMAIN answer : "mode" \notin DOMAIN answer[n] \/ answer[n].mode = "formatted"}

ParsableRows(answer) ==
    {n \in DOMAIN answer : "mode" \notin DOMAIN answer[n] \/ answer[n].mode = "parsable"}

\* The first loop of readSomeProperties: every answered name becomes a fresh
\* Property holding the formatted value and the source.
FormattedRead(properties, answer) ==
    [n \in DOMAIN properties \cup FormattedRows(answer) |->
        IF n \in FormattedRows(answer)
        THEN Property(answer[n].source, answer[n].value, Str_empty)
        ELSE properties[n]]

\* The second loop, were it to make an entry of every row it reads.
ParsableRead_AddsRows(properties, answer) ==
    [n \in DOMAIN properties \cup ParsableRows(answer) |->
        IF n \in ParsableRows(answer)
        THEN Property(IF n \in DOMAIN properties THEN properties[n].source ELSE SourceNone,
                      IF n \in DOMAIN properties THEN properties[n].value ELSE Str_empty,
                      answer[n].rawValue)
        ELSE properties[n]]

\* The second loop: the raw value of every name the map already holds.
ParsableRead(properties, answer) ==
    [n \in DOMAIN properties |->
        IF n \in ParsableRows(answer)
        THEN Property(properties[n].source, properties[n].value, answer[n].rawValue)
        ELSE properties[n]]

\* readSomeProperties: answer is what the remote holds for the names asked.
readSomeProperties(baseCommand, resourceName, propertyName, args, properties, answer, fail) ==
    LET c1 == Cmd(baseCommand \o Str_get_formatted \o propertyName \o Str_space \o resourceName,
                  "get", propertyName, Str_empty, args)
        c2 == Cmd(baseCommand \o Str_get_parsable \o propertyName \o Str_space \o resourceName,
                  "getp", propertyName, Str_empty, args)
        p1 == FormattedRead(properties, answer)
    IN  IF fail.at = 1
        THEN [err |-> CommandError(fail.type, c1.text), cmds |-> <<c1>>, properties |-> properties]
        ELSE IF fail.at = 2
        THEN [err |-> CommandError(fail.type, c2.text), cmds |-> <<c1, c2>>, properties |-> p1]
        ELSE [err |-> NoError, cmds |-> <<c1, c2>>, properties |-> ParsableRead(p1, answer)]

\* What the remote answers when asked for names: answers.all is returned
\* for 'all', answers.extra only for a name asked by itself.
Explicit(answers, names) ==
    [n \in names \cap (DOMAIN answers.all \cup DOMAIN answers.extra) |->
        IF n \in DOMAIN answers.all THEN answers.all[n] ELSE answers.extra[n]]

readAllProperties(baseCommand, resourceName, requiredProperties, properties, answers, fail) ==
    LET Second(r1, r2) ==
            [err |-> r2.err, cmds |-> r1.cmds \o r2.cmds, properties |-> r2.properties]
        First(r1) ==
            LET missing == {i \in DOMAIN requiredProperties :
                                requiredProperties[i] \notin DOMAIN r1.properties}
            IN  IF r1.err # NoError \/ missing = {}
                THEN r1
                ELSE Second(r1,
                            readSomeProperties(baseCommand, resourceName,
                                               Join(requiredProperties, Str_comma),
                                               Range(requiredProperties), r1.properties,
                                               Explicit(answers, Range(requiredProperties)),
                                               Shift(fail, 2)))
    IN  First(readSomeProperties(baseCommand, resourceName, Str_all, {}, properties,
                                 answers.all, fail))

readDatasetProperties(datasetName, requiredProperties, properties, answers, fail) ==
    readAllProperties(Str_zfs, datasetName,
                      SelectSeq(requiredProperties, LAMBDA property : ~isPoolProperty(property)),
                      properties, answers, fail)

readPoolProperties(poolName, requiredProperties, properties, answers, fail) ==
    readAllProperties(Str_zpool, poolName,
                      SelectSeq(requiredProperties, LAMBDA property : isPoolProperty(property)),
                      properties, answers, fail)

\* describeDataset: the fields of Dataset the resources use.
describeDataset(datasetName, requiredProperties, answers, fail) ==
    LET Describe(r, type) ==
            IF r.err # NoError
            THEN [entity |-> Nil, err |-> r.err, cmds |-> r.cmds]
            ELSE IF type \notin {Str_filesystem, Str_volume}
            THEN [entity |-> Nil, err |-> ErrorOf("error", "Unsupported zfs dataset type"),
                  cmds |-> r.cmds]
            ELSE [entity |-> [dsType |-> type,
                              guid |-> ValueOf(r.properties, Str_guid),
                              mountpoint |-> ValueOf(r.properties, Str_mountpoint),
                              properties |-> r.properties],
                  err |-> NoError, cmds |-> r.cmds]
        Read(r) == Describe(r, ValueOf(r.properties, Str_type))
    IN  Read(readDatasetProperties(datasetName, requiredProperties, EmptyMap, answers, fail))

\* The loop of readPoolLayout, were a device to open the mirror it belongs
\* to at the front of the list.
RECURSIVE ParseLayout_NewestFirst(_, _)
ParseLayout_NewestFirst(lines, layout) ==
    IF lines = <<>> THEN layout
    ELSE LET vdev == Head(lines)[2]
         IN  ParseLayout_NewestFirst(Tail(lines),
                 IF HasPrefix(vdev, Str_mirror)
                 THEN [layout EXCEPT !.mirrors = <<<<>>>> \o @]
                 ELSE IF Len(layout.mirrors) = 0
                 THEN [layout EXCEPT !.striped = Append(@, vdev)]
                 ELSE [layout EXCEPT !.mirrors[1] = Append(@, vdev)])

\* The loop of readPoolLayout over the lines after the first: a line is its
\* fields, and the vdev is the second of them.
RECURSIVE ParseLayout(_, _)
ParseLayout(lines, layout) ==
    IF lines = <<>> THEN layout
    ELSE LET vdev == Head(lines)[2]
         IN  ParseLayout(Tail(lines),
                 IF HasPrefix(vdev, Str_mirror)
                 THEN [layout EXCEPT !.mirrors = Append(@, <<>>)]
                 ELSE IF Len(layout.mirrors) = 0
                 THEN [layout EXCEPT !.striped = Append(@, vdev)]
                 ELSE [layout EXCEPT !.mirrors[Len(layout.mirrors)] = Append(@, vdev)])

\* readPoolLayout, were it to take a listing without rows for a pool
\* without vdevs.
readPoolLayout_EmptyLayout(poolName, stdout, fail) ==
    LET c == Cmd(Str_zpool_list_HPv \o poolName, "layout", Str_empty, Str_empty, {})
    IN  IF fail.at = 1
        THEN [layout |-> Nil, err |-> CommandError(fail.type, c.text), cmds |-> <<c>>]
        ELSE [layout |-> ParseLayout(IF stdout = <<>> THEN <<>> ELSE Tail(stdout),
                                     [mirrors |-> <<>>, striped |-> <<>>]),
              err |-> NoError, cmds |-> <<c>>]

readPoolLayout(poolName, stdout, fail) ==
    LET c == Cmd(Str_zpool_list_HPv \o poolName, "layout", Str_empty, Str_empty, {})
    IN  IF fail.at = 1
        THEN [layout |-> Nil, err |-> CommandError(fail.type, c.text), cmds |-> <<c>>]
        ELSE IF stdout = <<>>
        THEN [layout |-> Nil, err |-> ErrorOf("PoolError", "failed to read pool layout"),
              cmds |-> <<c>>]
        ELSE [layout |-> ParseLayout(Tail(stdout), [mirrors |-> <<>>, striped |-> <<>>]),
              err |-> NoError, cmds |-> <<c>>]

\* describePool: the layout, then the dataset and the pool properties of the
\* pool into one map.
describePool(poolName, requiredProperties, remote, fail) ==
    LET Third(l, r1, r2) ==
            IF r2.err # NoError
            THEN [entity |-> Nil, err |-> r2.err, cmds |-> l.cmds \o r1.cmds \o r2.cmds]
            ELSE [entity |-> [guid |-> ValueOf(r2.properties, Str_guid),
                              properties |-> r2.properties,
                              layout |-> l.layout],
                  err |-> NoError, cmds |-> l.cmds \o r1.cmds \o r2.cmds]
        Second(l, r1) ==
            IF r1.err # NoError
            THEN [entity |-> Nil, err |-> r1.err, cmds |-> l.cmds \o r1.cmds]
            ELSE Third(l, r1,
                       readPoolProperties(poolName, requiredProperties, r1.properties,
                                          remote.zpool, Shift(fail, 1 + Len(r1.cmds))))
        First(l) ==
            IF l.err # NoError
            THEN [entity |-> Nil, err |-> l.err, cmds |-> l.cmds]
            ELSE Second(l, readDatasetProperties(poolName, requiredProperties, EmptyMap,
                                                 remote.zfs, Shift(fail, 1)))
    IN  First(readPoolLayout(poolName, remote.layout, fail))

\* -------------------------------------------- createDataset, createPool

\* The properties createDataset serializes: the mountpoint joins them for a
\* filesystem with one.
CreateDatasetProperties(dataset) ==
    IF dataset.dsType = Str_filesystem /\ dataset.mountpoint # Str_empty
    THEN [n \in DOMAIN dataset.properties \cup {Str_mountpoint} |->
            IF n = Str_mountpoint THEN dataset.mountpoint ELSE dataset.properties[n]]
    ELSE dataset.properties

RECURSIVE DatasetOptions(_, _)
DatasetOptions(order, properties) ==
    IF order = <<>> THEN Str_empty
    ELSE Str_opt_o \o Quote(Head(order)) \o Str_eq \o Quote(properties[Head(order)])
         \o DatasetOptions(Tail(order), properties)

RECURSIVE PoolOptions(_, _)
PoolOptions(order, properties) ==
    IF order = <<>> THEN Str_empty
    ELSE (IF isPoolProperty(Head(order)) THEN Str_opt_o ELSE Str_opt_O)
         \o Quote(Head(order)) \o Str_eq \o Quote(properties[Head(order)])
         \o PoolOptions(Tail(order), properties)

\* The names and the values of a map of declared properties.
TextsOf(properties) == DOMAIN properties \cup {properties[n] : n \in DOMAIN properties}

CreateDatasetCommand(dataset, optionOrder) ==
    LET properties == CreateDatasetProperties(dataset)
        volume == IF dataset.dsType = Str_volume
                  THEN (IF dataset.sparse THEN Str_opt_s ELSE Str_empty)
                       \o Str_opt_V \o dataset.volsize
                  ELSE Str_empty
    IN  Cmd(Str_zfs_create \o volume \o DatasetOptions(optionOrder, properties)
                \o Str_space \o dataset.name,
            "create", dataset.name, Str_empty, TextsOf(properties))

CreatePoolCommand(pool, optionOrder) ==
    Cmd(Str_zpool_create \o PoolOptions(optionOrder, pool.properties)
            \o Str_space \o pool.name \o Str_space \o pool.vdevs,
        "create", pool.name, Str_empty, TextsOf(pool.properties))

\* The error of the create command: failCreate is "ok" or one of FailTypes.
CreateError(failCreate, command) ==
    IF failCreate = "ok" THEN NoError ELSE CommandError(failCreate, command.text)

createDataset_ReturnsFetchError(dataset, optionOrder, keyOrder, answers, failCreate, failDescribe) ==
    LET Return(command, err, fetch) ==
            [entity |-> fetch.entity,
             err |-> IF fetch.err # NoError THEN fetch.err ELSE err,
             cmds |-> <<command>> \o fetch.cmds]
        Create(command) ==
            Return(command, CreateError(failCreate, command),
                   describeDataset(dataset.name, keyOrder, answers, failDescribe))
    IN  Create(CreateDatasetCommand(dataset, optionOrder))

\* createDataset: optionOrder and keyOrder are the orders in which Go walks
\* the properties for the options and for mapKeys.
createDataset(dataset, optionOrder, keyOrder, answers, failCreate, failDescribe) ==
    LET Return(command, err, fetch) ==
            IF err # NoError
            THEN IF fetch.err # NoError
                 THEN [entity |-> fetch.entity, err |-> err,
                       cmds |-> <<command>> \o fetch.cmds]
                 ELSE [entity |-> Nil, err |-> err, cmds |-> <<command>> \o fetch.cmds]
            ELSE [entity |-> fetch.entity, err |-> fetch.err,
                  cmds |-> <<command>> \o fetch.cmds]
        Create(command) ==
            Return(command, CreateError(failCreate, command),
                   describeDataset(dataset.name, keyOrder, answers, failDescribe))
    IN  Create(CreateDatasetCommand(dataset, optionOrder))

createPool(pool, optionOrder, keyOrder, remote, failCreate, failDescribe) ==
    LET Return(command, err, fetch) ==
            IF err # NoError
            THEN IF fetch.err # NoError
                 THEN [entity |-> fetch.entity, err |-> err,
                       cmds |-> <<command>> \o fetch.cmds]
                 ELSE [entity |-> Nil, err |-> err, cmds |-> <<command>> \o fetch.cmds]
            ELSE [entity |-> fetch.entity, err |-> fetch.err,
                  cmds |-> <<command>> \o fetch.cmds]
        Create(command) ==
            Return(command, CreateError(failCreate, command),
                   describePool(pool.name, keyOrder, remote, failDescribe))
    IN  Create(CreatePoolCommand(pool, optionOrder))

\* --------------------------------------------------------- SpecCreate

CreateNames == {Str_compression, Str_userquota, Str_ashift, Str_unsafe}

CreateValues == {Str_on, Str_a_b}

\* What zfs get answers for the new dataset, of the type it reports.
DatasetAnswers(type) ==
    [all |-> [n \in {Str_type, Str_guid, Str_compression, Str_mountpoint} |->
                 IF n = Str_type THEN Property(SourceNone, type, type)
                 ELSE IF n = Str_guid THEN Property(SourceNone, Str_101, Str_101)
                 ELSE IF n = Str_compression THEN Property(SourceLocal, Str_on, Str_on)
                 ELSE Property(SourceDefault, Str_mnt, Str_mnt)],
     extra |-> [n \in {Str_userquota} |-> Property(SourceLocal, Str_none, Str_none)]]

PoolAnswers ==
    [all |-> [n \in {Str_guid, Str_ashift} |->
                 IF n = Str_guid THEN Property(SourceNone, Str_101, Str_101)
                 ELSE Property(SourceLocal, Str_4K, Str_4096)],
     extra |-> EmptyMap]

\* The lines of zpool list -HPv: nothing, one striped device, one mirror.
LayoutOutputs ==
    {<<>>,
     <<<<Str_tank, Str_empty>>, <<Str_empty, Str_dev_a>>>>,
     <<<<Str_tank, Str_empty>>, <<Str_empty, Str_mirror_0>>,
       <<Str_empty, Str_dev_a>>, <<Str_empty, Str_dev_b>>>>}

CreateDatasetInputs ==
    {[name |-> Str_tank_ds, mountpoint |-> v[1], dsType |-> v[2], sparse |-> v[3],
      volsize |-> Str_1G, properties |-> properties] :
        v \in {<<Str_mnt, Str_empty, FALSE>>, <<Str_mnt, Str_filesystem, FALSE>>,
               <<Str_empty, Str_filesystem, FALSE>>, <<Str_empty, Str_volume, TRUE>>,
               <<Str_empty, Str_volume, FALSE>>},
        properties \in MapsUpTo(CreateNames, CreateValues, MaxDeclared)}

CreatePoolInputs ==
    {[name |-> Str_tank, vdevs |-> Str_dev_a, properties |-> properties] :
        properties \in MapsUpTo(CreateNames, CreateValues, MaxDeclared)}

CreateFailures == {"ok"} \cup FailTypes

InitCreate ==
    /\ cre \in [pc : {"call"}, kind : {"dataset"}, create : CreateDatasetInputs,
                remote : {[layout |-> <<>>, zfs |-> DatasetAnswers(type), zpool |-> PoolAnswers] :
                             type \in {Str_filesystem, Str_snapshot}},
                entity : {Nil}, err : {NoError}, cmds : {<<>>},
                createerr : {NoError}, fetcherr : {NoError}]
          \cup
          [pc : {"call"}, kind : {"pool"}, create : CreatePoolInputs,
                remote : {[layout |-> layout, zfs |-> DatasetAnswers(Str_filesystem),
                           zpool |-> PoolAnswers] : layout \in LayoutOutputs},
                entity : {Nil}, err : {NoError}, cmds : {<<>>},
                createerr : {NoError}, fetcherr : {NoError}]
    /\ ups = Idle
    /\ apd = Idle
    /\ ren = Idle
    /\ res = Idle
    /\ hnd = Idle
    /\ ssh = Idle
    /\ cls = Idle
    /\ lay = Idle
    /\ rac = Idle
    /\ rdp = Idle

CreateDataset ==
    /\ cre.pc = "call"
    /\ cre.kind = "dataset"
    /\ \E optionOrder \in Perms(DOMAIN CreateDatasetProperties(cre.create)),
          keyOrder \in Perms(DOMAIN CreateDatasetProperties(cre.create)),
          failCreate \in CreateFailures :
       \E failDescribe \in Failures(Len(describeDataset(cre.create.name, keyOrder,
                                             cre.remote.zfs, NoFail).cmds)) :
         LET Done(r, fetch) ==
                 cre' = [cre EXCEPT !.pc = "done", !.entity = r.entity, !.err = r.err,
                                    !.cmds = r.cmds,
                                    !.createerr = CreateError(failCreate, r.cmds[1]),
                                    !.fetcherr = fetch.err]
         IN  Done(createDataset(cre.create, optionOrder, keyOrder, cre.remote.zfs,
                                failCreate, failDescribe),
                  describeDataset(cre.create.name, keyOrder, cre.remote.zfs, failDescribe))
    /\ UNCHANGED <<ups, apd, ren, res, hnd, ssh, cls, lay, rac, rdp>>

CreatePool ==
    /\ cre.pc = "call"
    /\ cre.kind = "pool"
    /\ \E optionOrder \in Perms(DOMAIN cre.create.properties),
          keyOrder \in Perms(DOMAIN cre.create.properties),
          failCreate \in CreateFailures :
       \E failDescribe \in Failures(Len(describePool(cre.create.name, keyOrder,
                                             cre.remote, NoFail).cmds)) :
         LET Done(r, fetch) ==
                 cre' = [cre EXCEPT !.pc = "done", !.entity = r.entity, !.err = r.err,
                                    !.cmds = r.cmds,
                                    !.createerr = CreateError(failCreate, r.cmds[1]),
                                    !.fetcherr = fetch.err]
         IN  Done(createPool(cre.create, optionOrder, keyOrder, cre.remote,
                             failCreate, failDescribe),
                  describePool(cre.create.name, keyOrder, cre.remote, failDescribe))
    /\ UNCHANGED <<ups, apd, ren, res, hnd, ssh, cls, lay, rac, rdp>>

NextCreate == CreateDataset \/ CreatePool

SpecCreate == InitCreate /\ [][NextCreate]_vars

\* ------------------------------------------------ claims on SpecCreate

\* C1 (as stated): whenever the create command fails and the describe that
\* follows succeeds, createDataset and createPool return the error of the
\* create command together with a described entity that is not nil.
C1_CreateFailureReturnsEntity ==
    (cre.pc = "done" /\ cre.createerr # NoError /\ cre.fetcherr = NoError)
        => (cre.err = cre.createerr /\ cre.entity # Nil)

\* C2: whenever the create command fails, the error returned is the error of
\* the create command, never nil and never the error of the describe, whether
\* the describe succeeds or fails; and when the describe fails too the entity
\* returned is nil.
C2_CreateErrorPreserved ==
    (cre.pc = "done" /\ cre.createerr # NoError)
        => /\ cre.err = cre.createerr
           /\ cre.err # NoError
           /\ cre.err # cre.fetcherr
           /\ cre.fetcherr # NoError => cre.entity = Nil

\* The create command and the describe both fail.
C2_Witness ==
    /\ cre.pc = "done"
    /\ cre.createerr # NoError
    /\ cre.fetcherr # NoError
    /\ cre.err = cre.createerr
    /\ cre.entity = Nil
    /\ Len(cre.cmds) > 1

\* C9 (as stated): every declared property name and value substituted into
\* a command line is shell-escaped in it, in the get commands of the property
\* read as in the options of zfs create and zpool create.
C9_DeclaredTextsEscaped ==
    \A i \in 1..Len(cre.cmds) :
        \A text \in cre.cmds[i].args : Contains(cre.cmds[i].text, Quote(text))

\* --------------------------------------------------------- remote host

\* The remote host holds one pool or dataset: its name and guid, whether it
\* is available, its device lines, and what zfs get and zpool get answer.
\* A command that fails leaves the remote as it was.

\* The lines of 'list -H -o name,guid': the other resources of the host, then
\* this one when it is there.
Listing(remote) ==
    remote.others
    \o (IF remote.status = "available" THEN <<<<remote.name, remote.guid>>>> ELSE <<>>)

Available(remote, name) == remote.status = "available" /\ remote.name = name

\* A command naming a pool that is not there fails with 'no such pool', one
\* naming a dataset that is not there with 'dataset does not exist'.
Forced(available, type, fail) == IF available THEN fail ELSE [at |-> 1, type |-> type]

\* The log of a call: its commands and whether each succeeded.
Logged(r) ==
    [i \in 1..Len(r.cmds) |->
        [cmd |-> r.cmds[i], ok |-> ~(i = Len(r.cmds) /\ r.err.type \in FailTypes)]]

\* ------------------------------------------------------- name by guid

\* A lookup that takes the first listed resource, whatever its guid.
getZfsResourceNameByGuid_FirstRow(resource_type, guid, listing, fail) ==
    LET c == Cmd(resource_type \o Str_list, "list", Str_empty, Str_empty, {})
    IN  IF fail.at = 1
        THEN [name |-> Nil, err |-> CommandError(fail.type, c.text), cmds |-> <<c>>]
        ELSE IF listing = <<>>
        THEN [name |-> Nil, err |-> ErrorOf("error", "no resource found with guid"),
              cmds |-> <<c>>]
        ELSE [name |-> listing[1][1], err |-> NoError, cmds |-> <<c>>]

getZfsResourceNameByGuid(resource_type, guid, listing, fail) ==
    LET c == Cmd(resource_type \o Str_list, "list", Str_empty, Str_empty, {})
        hits == {i \in DOMAIN listing : listing[i][2] = guid}
    IN  IF fail.at = 1
        THEN [name |-> Nil, err |-> CommandError(fail.type, c.text), cmds |-> <<c>>]
        ELSE IF hits = {}
        THEN [name |-> Nil, err |-> ErrorOf("error", "no resource found with guid"),
              cmds |-> <<c>>]
        ELSE [name |-> listing[CHOOSE i \in hits : \A j \in hits : i <= j][1],
              err |-> NoError, cmds |-> <<c>>]

getDatasetNameByGuid(guid, listing, fail) ==
    getZfsResourceNameByGuid(Str_zfs, guid, listing, fail)

getPoolNameByGuid(guid, listing, fail) ==
    getZfsResourceNameByGuid(Str_zpool, guid, listing, fail)

\* getPropertyNames: the names of d's property blocks, in the order of the set.
getPropertyNames(d) == SetToSeq(BlockNames(d.property))

\* ------------------------------------------------------- pool resource

\* resourcePoolRead with populateResourceDataPool: d is the ResourceData
\* (id, name, property, property_mode, properties, raw_properties, layout).
resourcePoolRead(d, remote, fail) ==
    LET Populate(d1, cmds, pool, upd) ==
            IF upd.err # NoError
            THEN [d |-> upd.d, err |-> upd.err, cmds |-> cmds, failed |-> FALSE]
            ELSE [d |-> [upd.d EXCEPT !.id = pool.entity.guid], err |-> NoError,
                  cmds |-> cmds, failed |-> FALSE]
        Described(d1, cmds0, pool) ==
            IF pool.err # NoError
            THEN [d |-> d1, err |-> pool.err, cmds |-> cmds0 \o pool.cmds,
                  failed |-> pool.err.type \in FailTypes]
            ELSE Populate(d1, cmds0 \o pool.cmds, pool,
                          updatePropertiesInState([d1 EXCEPT !.layout = pool.entity.layout],
                                                  pool.entity.properties, {}))
        Named(poolName, cmds0) ==
            Described([d EXCEPT !.name = poolName], cmds0,
                      describePool(poolName, getPropertyNames(d), remote,
                                   Forced(Available(remote, poolName), "PoolError",
                                          Shift(fail, Len(cmds0)))))
        Resolved(lookup) ==
            IF lookup.err # NoError
            THEN [d |-> d, err |-> ErrorOf("error", "the zpool could not be found"),
                  cmds |-> lookup.cmds, failed |-> lookup.err.type \in FailTypes]
            ELSE Named(lookup.name, lookup.cmds)
    IN  IF d.id # Str_empty
        THEN Resolved(getPoolNameByGuid(d.id, Listing(remote), fail))
        ELSE Named(d.name, <<>>)

\* The log of a handler: failed tells whether its last command failed.
LoggedHandler(r) ==
    [i \in 1..Len(r.cmds) |-> [cmd |-> r.cmds[i], ok |-> ~(i = Len(r.cmds) /\ r.failed)]]

\* The ResourceData of an Update: the stored state under the planned values.
Planned(cfg, state) ==
    [state EXCEPT !.name = cfg.name, !.property = cfg.property,
                  !.property_mode = cfg.property_mode]

RenamePoolExportCommand(oldName) ==
    Cmd(Str_zpool_export \o oldName, "export", oldName, Str_empty, {})

RenamePoolImportCommand(oldName, newName) ==
    Cmd(Str_zpool_import \o oldName \o Str_space \o newName, "import", oldName, newName, {})

AfterExport_IgnoresError(err) == "exported"

\* renamePool after the export: return its error, or go on to the import.
AfterExport(err) == IF err # NoError THEN "done" ELSE "exported"

\* resourcePoolUpdate from describePool on: the diff with no overrides, the
\* effect of its commands on the remote, then resourcePoolRead.
resourcePoolUpdateFinish(cfg, state, remote, resetOrder, setOrder, fail) ==
    LET Read(cmds, remote1, read) ==
            [d |-> read.d, err |-> read.err, cmds |-> cmds \o read.cmds,
             remote |-> remote1, failed |-> read.failed]
        Applied(pool, diff, remote1) ==
            IF diff.err # NoError
            THEN [d |-> Planned(cfg, state), err |-> diff.err,
                  cmds |-> pool.cmds \o diff.cmds,
                  remote |-> remote1, failed |-> diff.err.type \in FailTypes]
            ELSE Read(pool.cmds \o diff.cmds, remote1,
                      resourcePoolRead(Planned(cfg, state), remote1,
                                       Shift(fail, Len(pool.cmds) + Len(diff.cmds))))
        Diffed(pool, diff) == Applied(pool, diff, ApplyAll(remote, Succeeded(diff)))
        Described(pool) ==
            IF pool.err # NoError
            THEN [d |-> Planned(cfg, state), err |-> pool.err, cmds |-> pool.cmds,
                  remote |-> remote, failed |-> pool.err.type \in FailTypes]
            ELSE Diffed(pool,
                        applyPropertyDiff(cfg.name, pool.entity.properties, EmptyMap,
                                          state.property, cfg.property, resetOrder, setOrder,
                                          Shift(fail, Len(pool.cmds))))
    IN  Described(describePool(cfg.name, getPropertyNames(Planned(cfg, state)), remote,
                               Forced(Available(remote, cfg.name), "PoolError", fail)))

\* renamePool: the export, and the import when the export succeeded.
renamePool(oldName, newName, fail) ==
    LET export == RenamePoolExportCommand(oldName)
        import == RenamePoolImportCommand(oldName, newName)
    IN  IF fail.at = 1
        THEN [err |-> CommandError(fail.type, export.text), cmds |-> <<export>>]
        ELSE IF fail.at = 2
        THEN [err |-> CommandError(fail.type, import.text), cmds |-> <<export, import>>]
        ELSE [err |-> NoError, cmds |-> <<export, import>>]

\* resourcePoolUpdate in one piece: the name by guid, renamePool when the
\* declared name is another, then the rest.
resourcePoolUpdate(cfg, state, remote, resetOrder, setOrder, fail) ==
    LET Finished(cmds, finish) ==
            [d |-> finish.d, err |-> finish.err, cmds |-> cmds \o finish.cmds,
             remote |-> finish.remote, failed |-> finish.failed]
        Renamed(cmds, remote1) ==
            Finished(cmds, resourcePoolUpdateFinish(cfg, state, remote1, resetOrder,
                                                    setOrder, Shift(fail, Len(cmds))))
        Rename(lookup, rename) ==
            IF rename.err # NoError
            THEN [d |-> Planned(cfg, state), err |-> rename.err,
                  cmds |-> lookup.cmds \o rename.cmds,
                  remote |-> ApplyAll(remote, Succeeded(rename)), failed |-> TRUE]
            ELSE Renamed(lookup.cmds \o rename.cmds, ApplyAll(remote, rename.cmds))
        Resolved(lookup) ==
            IF lookup.err # NoError
            THEN [d |-> Planned(cfg, state), err |-> lookup.err, cmds |-> lookup.cmds,
                  remote |-> remote, failed |-> lookup.err.type \in FailTypes]
            ELSE IF cfg.name # lookup.name
            THEN Rename(lookup, renamePool(lookup.name, cfg.name, Shift(fail, 1)))
            ELSE Renamed(lookup.cmds, remote)
    IN  Resolved(getPoolNameByGuid(state.id, Listing(remote), fail))

\* --------------------------------------------------------- SpecRename

PoolDeclared == DeclaredSets({Str_ashift, Str_compression}, MaxDeclared)

PoolRemotes ==
    {[name |-> Str_tank, guid |-> Str_101, status |-> status, others |-> <<>>,
      layout |-> <<<<Str_tank, Str_empty>>, <<Str_empty, Str_dev_a>>>>,
      zfs |-> DatasetAnswers(Str_filesystem), zpool |-> PoolAnswers] :
        status \in {"available", "exported"}}

InitRename ==
    /\ ren \in [pc : {"start"},
                cfg : [name : {Str_tank, Str_newtank}, property : PoolDeclared,
                       property_mode : {"defined", "all"}],
                d : [id : {Str_101}, name : {Str_tank}, property : PoolDeclared,
                     property_mode : {"defined"}, properties : {EmptyMap},
                     raw_properties : {EmptyMap}, layout : {Nil}],
                remote : PoolRemotes,
                old_name : {Str_empty},
                log : {<<>>},
                err : {NoError}]
    /\ ups = Idle
    /\ apd = Idle
    /\ cre = Idle
    /\ res = Idle
    /\ hnd = Idle
    /\ ssh = Idle
    /\ cls = Idle
    /\ lay = Idle
    /\ rac = Idle
    /\ rdp = Idle

\* old_name, err := getPoolNameByGuid(config, d.Id())
ResolvePoolName ==
    /\ ren.pc = "start"
    /\ \E fail \in Failures(1) :
         LET Done(r) ==
                 ren' = [ren EXCEPT !.pc = IF r.err # NoError THEN "done" ELSE "resolved",
                                    !.old_name = IF r.err # NoError THEN Str_empty ELSE r.name,
                                    !.err = r.err,
                                    !.log = Logged(r)]
         IN  Done(getPoolNameByGuid(ren.d.id, Listing(ren.remote), fail))
    /\ UNCHANGED <<ups, apd, cre, res, hnd, ssh, cls, lay, rac, rdp>>

\* poolName == *old_name: renamePool is not called.
SkipRename ==
    /\ ren.pc = "resolved"
    /\ ren.cfg.name = ren.old_name
    /\ ren' = [ren EXCEPT !.pc = "renamed"]
    /\ UNCHANGED <<ups, apd, cre, res, hnd, ssh, cls, lay, rac, rdp>>

\* renamePool, its first command.
RenamePoolExport ==
    /\ ren.pc = "resolved"
    /\ ren.cfg.name # ren.old_name
    /\ \E fail \in Failures(1) :
         LET c == RenamePoolExportCommand(ren.old_name)
             err == IF fail.at = 1 THEN CommandError(fail.type, c.text) ELSE NoError
         IN  ren' = [ren EXCEPT !.pc = AfterExport(err),
                                !.err = err,
                                !.log = Append(@, [cmd |-> c, ok |-> err = NoError]),
                                !.remote = IF err = NoError THEN Effect(@, c) ELSE @]
    /\ UNCHANGED <<ups, apd, cre, res, hnd, ssh, cls, lay, rac, rdp>>

\* renamePool, its second command: its error is the error of the Update.
RenamePoolImport ==
    /\ ren.pc = "exported"
    /\ \E fail \in Failures(1) :
         LET c == RenamePoolImportCommand(ren.old_name, ren.cfg.name)
             err == IF fail.at = 1 THEN CommandError(fail.type, c.text) ELSE NoError
         IN  ren' = [ren EXCEPT !.pc = IF err # NoError THEN "done" ELSE "renamed",
                                !.err = err,
                                !.log = Append(@, [cmd |-> c, ok |-> err = NoError]),
                                !.remote = IF err = NoError THEN Effect(@, c) ELSE @]
    /\ UNCHANGED <<ups, apd, cre, res, hnd, ssh, cls, lay, rac, rdp>>

\* The provider process is killed between two commands of the Update.
Interrupt ==
    /\ ren.pc \in {"resolved", "exported", "renamed"}
    /\ ren' = [ren EXCEPT !.pc = "interrupted"]
    /\ UNCHANGED <<ups, apd, cre, res, hnd, ssh, cls, lay, rac, rdp>>

\* The rest of resourcePoolUpdate.
PoolUpdateFinish ==
    /\ ren.pc = "renamed"
    /\ \E resetOrder \in Perms(RemovedNames(EmptyMap, ren.d.property, ren.cfg.property)),
          setOrder \in Perms(DesiredNames(EmptyMap, ren.cfg.property)) :
       \E fail \in Failures(Len(resourcePoolUpdateFinish(ren.cfg, ren.d, ren.remote,
                                    resetOrder, setOrder, NoFail).cmds)) :
         LET Done(r) ==
                 ren' = [ren EXCEPT !.pc = "done", !.d = r.d, !.err = r.err,
                                    !.log = @ \o LoggedHandler(r),
                                    !.remote = r.remote]
         IN  Done(resourcePoolUpdateFinish(ren.cfg, ren.d, ren.remote,
                                           resetOrder, setOrder, fail))
    /\ UNCHANGED <<ups, apd, cre, res, hnd, ssh, cls, lay, rac, rdp>>

NextRename ==
    \/ ResolvePoolName
    \/ SkipRename
    \/ RenamePoolExport
    \/ RenamePoolImport
    \/ Interrupt
    \/ PoolUpdateFinish

SpecRename == InitRename /\ [][NextRename]_vars

\* ---------------------------------------------------- dataset resource

\* getFileOwnership: the stat command; its output is well formed.
getFileOwnership(path, fail) ==
    LET c == Cmd(Str_stat \o path \o Str_squote, "stat", path, Str_empty, {})
    IN  IF fail.at = 1
        THEN [err |-> CommandError(fail.type, c.text), cmds |-> <<c>>]
        ELSE [err |-> NoError, cmds |-> <<c>>]

\* The attributes of the dataset resource that name the owner of the
\* mountpoint: uid and gid are integers, owner and group are names.
OwnershipKeys == {"uid", "gid", "owner", "group"}

\* d.GetOk(key) of an integer and of a string attribute: the zero value when
\* the attribute is not set.
GetInt(d, key) == IF key \in DOMAIN d THEN d[key] ELSE 0

GetString(d, key) == IF key \in DOMAIN d THEN d[key] ELSE Str_empty

\* d.HasChange(key) in an Update of state to cfg.
HasChange(cfg, state, key) ==
    IF key \in {"uid", "gid"} THEN GetInt(cfg, key) # GetInt(state, key)
    ELSE GetString(cfg, key) # GetString(state, key)

\* d.Set(key, nil) for the four attributes.
ClearOwnership(d) == [k \in DOMAIN d \ OwnershipKeys |-> d[k]]

\* fmt.Sprintf("%d", n) for n >= 0.
Digits == <<"0", "1", "2", "3", "4", "5", "6", "7", "8", "9">>

RECURSIVE Itoa(_)
Itoa(n) == IF n < 10 THEN <<Digits[n + 1]>> ELSE Itoa(n \div 10) \o <<Digits[(n % 10) + 1]>>

\* "chown '%d' '%s'", "chgrp '%s' '%s'": the quotes are written by hand.
OwnershipCommand(program, verb, who, mountpoint) ==
    Cmd(program \o Str_space \o Str_squote \o who \o Str_squote \o Str_space
            \o Str_squote \o mountpoint \o Str_squote,
        verb, who, mountpoint, {who, mountpoint})

\* The ownership commands of Create and Update in the order of the code:
\* uid, gid, owner, group, each when GetOk holds and the key is in keys.
ownershipCommands(d, mountpoint, keys) ==
    (IF GetInt(d, "uid") # 0 /\ "uid" \in keys
     THEN <<OwnershipCommand(Str_chown, "chown", Itoa(d.uid), mountpoint)>> ELSE <<>>)
    \o (IF GetInt(d, "gid") # 0 /\ "gid" \in keys
        THEN <<OwnershipCommand(Str_chgrp, "chgrp", Itoa(d.gid), mountpoint)>> ELSE <<>>)
    \o (IF GetString(d, "owner") # Str_empty /\ "owner" \in keys
        THEN <<OwnershipCommand(Str_chown, "chown", d.owner, mountpoint)>> ELSE <<>>)
    \o (IF GetString(d, "group") # Str_empty /\ "group" \in keys
        THEN <<OwnershipCommand(Str_chgrp, "chgrp", d.group, mountpoint)>> ELSE <<>>)

\* The commands are issued one after the other; the first that fails ends
\* the handler.
setOwnership(d, mountpoint, keys, fail) ==
    LET all == ownershipCommands(d, mountpoint, keys)
    IN  IF fail.at \in 1..Len(all)
        THEN [err |-> CommandError(fail.type, all[fail.at].text),
              cmds |-> SubSeq(all, 1, fail.at)]
        ELSE [err |-> NoError, cmds |-> all]

\* renameDataset, were it to try the command a second time when it fails.
renameDataset_RetryOnce(oldName, newName, fail) ==
    LET c == Cmd(Str_zfs_rename \o oldName \o Str_space \o newName, "rename",
                 oldName, newName, {})
    IN  IF fail.at = 1
        THEN [err |-> CommandError(fail.type, c.text), cmds |-> <<c, c>>]
        ELSE [err |-> NoError, cmds |-> <<c>>]

renameDataset(oldName, newName, fail) ==
    LET c == Cmd(Str_zfs_rename \o oldName \o Str_space \o newName, "rename",
                 oldName, newName, {})
    IN  IF fail.at = 1
        THEN [err |-> CommandError(fail.type, c.text), cmds |-> <<c>>]
        ELSE [err |-> NoError, cmds |-> <<c>>]

\* resourceDatasetRead: d is the ResourceData (id, name, mountpoint, property,
\* property_mode, properties, raw_properties and the ownership attributes
\* that are set); seen is what describeDataset observed. stat reports the
\* ownership that d tracks, so the tracked attributes stay as they are; for a
\* sentinel mountpoint the four attributes are set to nil.
resourceDatasetRead(d, remote, fail) ==
    LET Updated(d2, cmds, dataset, upd) ==
            IF upd.err # NoError
            THEN [d |-> upd.d, err |-> upd.err, cmds |-> cmds, failed |-> FALSE,
                  seen |-> dataset.entity.properties]
            ELSE [d |-> [upd.d EXCEPT !.id = dataset.entity.guid], err |-> NoError,
                  cmds |-> cmds, failed |-> FALSE, seen |-> dataset.entity.properties]
        Owned(d2, cmds, dataset, ownership) ==
            IF ownership.err # NoError
            THEN [d |-> d2, err |-> ownership.err, cmds |-> cmds \o ownership.cmds,
                  failed |-> TRUE, seen |-> dataset.entity.properties]
            ELSE Updated(d2, cmds \o ownership.cmds, dataset,
                         updatePropertiesInState(d2, dataset.entity.properties,
                                                 {Str_mountpoint}))
        Described(d1, cmds0, dataset) ==
            IF dataset.err # NoError
            THEN [d |-> d1, err |-> dataset.err, cmds |-> cmds0 \o dataset.cmds,
                  failed |-> dataset.err.type \in FailTypes, seen |-> EmptyMap]
            ELSE IF dataset.entity.mountpoint # Str_none /\ dataset.entity.mountpoint # Str_legacy
            THEN Owned([d1 EXCEPT !.mountpoint = dataset.entity.mountpoint],
                       cmds0 \o dataset.cmds, dataset,
                       getFileOwnership(dataset.entity.mountpoint,
                                        Shift(fail, Len(cmds0) + Len(dataset.cmds))))
            ELSE Updated(ClearOwnership([d1 EXCEPT !.mountpoint = dataset.entity.mountpoint]),
                         cmds0 \o dataset.cmds, dataset,
                         updatePropertiesInState(
                             ClearOwnership([d1 EXCEPT !.mountpoint = dataset.entity.mountpoint]),
                             dataset.entity.properties, {Str_mountpoint}))
        Named(datasetName, cmds0) ==
            Described([d EXCEPT !.name = datasetName], cmds0,
                      describeDataset(datasetName, getPropertyNames(d), remote.zfs,
                                      Forced(Available(remote, datasetName), "DatasetError",
                                             Shift(fail, Len(cmds0)))))
        Resolved(lookup) ==
            IF lookup.err # NoError
            THEN [d |-> d, err |-> ErrorOf("error", "the dataset could not be found"),
                  cmds |-> lookup.cmds, failed |-> lookup.err.type \in FailTypes,
                  seen |-> EmptyMap]
            ELSE Named(lookup.name, lookup.cmds)
    IN  IF d.id # Str_empty
        THEN Resolved(getDatasetNameByGuid(d.id, Listing(remote), fail))
        ELSE Named(d.name, <<>>)

\* The ResourceData of a dataset Update: the stored state under the planned
\* values.
PlannedDataset(cfg, state) ==
    LET base == [state EXCEPT !.name = cfg.name, !.mountpoint = cfg.mountpoint,
                              !.property = cfg.property,
                              !.property_mode = cfg.property_mode]
    IN  [k \in (DOMAIN base \ OwnershipKeys) \cup (DOMAIN cfg \cap OwnershipKeys) |->
            IF k \in OwnershipKeys THEN cfg[k] ELSE base[k]]

\* overrideProperties := map[string]string{"mountpoint": d.Get("mountpoint")}
DatasetOverrides(cfg) == [n \in {Str_mountpoint} |-> cfg.mountpoint]

\* The guard of the ownership commands of resourceDatasetUpdate:
\* d.GetOk("mountpoint").
UpdateSetsOwnership(mountpoint) == mountpoint # Str_empty

\* resourceDatasetUpdate: the commands, the ResourceData and the remote they
\* leave.
resourceDatasetUpdate(cfg, state, remote, resetOrder, setOrder, fail) ==
    LET Read(cmds, remote2, read) ==
            [d |-> read.d, err |-> read.err, cmds |-> cmds \o read.cmds,
             remote |-> remote2, failed |-> read.failed]
        Owned(cmds, remote2, ownership) ==
            IF ownership.err # NoError
            THEN [d |-> PlannedDataset(cfg, state), err |-> ownership.err,
                  cmds |-> cmds \o ownership.cmds, remote |-> remote2, failed |-> TRUE]
            ELSE Read(cmds \o ownership.cmds, remote2,
                      resourceDatasetRead(PlannedDataset(cfg, state), remote2,
                                          Shift(fail, Len(cmds) + Len(ownership.cmds))))
        Applied(cmds, diff, remote2) ==
            IF diff.err # NoError
            THEN [d |-> PlannedDataset(cfg, state), err |-> diff.err,
                  cmds |-> cmds \o diff.cmds, remote |-> remote2,
                  failed |-> diff.err.type \in FailTypes]
            ELSE IF UpdateSetsOwnership(cfg.mountpoint)
            THEN Owned(cmds \o diff.cmds, remote2,
                       setOwnership(cfg, cfg.mountpoint,
                                    {k \in OwnershipKeys : HasChange(cfg, state, k)},
                                    Shift(fail, Len(cmds) + Len(diff.cmds))))
            ELSE Owned(cmds \o diff.cmds, remote2, [err |-> NoError, cmds |-> <<>>])
        Diffed(cmds, remote1, diff) ==
            Applied(cmds, diff, ApplyAll(remote1, Succeeded(diff)))
        Described(cmds, remote1, dataset) ==
            IF dataset.err # NoError
            THEN [d |-> PlannedDataset(cfg, state), err |-> dataset.err,
                  cmds |-> cmds \o dataset.cmds, remote |-> remote1,
                  failed |-> dataset.err.type \in FailTypes]
            ELSE Diffed(cmds \o dataset.cmds, remote1,
                        applyPropertyDiff(cfg.name, dataset.entity.properties,
                                          DatasetOverrides(cfg), state.property,
                                          cfg.property, resetOrder, setOrder,
                                          Shift(fail, Len(cmds) + Len(dataset.cmds))))
        Renamed(cmds, remote1) ==
            Described(cmds, remote1,
                      describeDataset(cfg.name, getPropertyNames(PlannedDataset(cfg, state)),
                                      remote1.zfs,
                                      Forced(Available(remote1, cfg.name), "DatasetError",
                                             Shift(fail, Len(cmds)))))
        Rename(lookup, rename) ==
            IF rename.err # NoError
            THEN [d |-> PlannedDataset(cfg, state), err |-> rename.err,
                  cmds |-> lookup.cmds \o rename.cmds, remote |-> remote, failed |-> TRUE]
            ELSE Renamed(lookup.cmds \o rename.cmds, ApplyAll(remote, rename.cmds))
        Resolved(lookup) ==
            IF lookup.err # NoError
            THEN [d |-> PlannedDataset(cfg, state), err |-> lookup.err, cmds |-> lookup.cmds,
                  remote |-> remote, failed |-> lookup.err.type \in FailTypes]
            ELSE IF cfg.name # lookup.name
            THEN Rename(lookup, renameDataset(lookup.name, cfg.name, Shift(fail, 1)))
            ELSE Renamed(lookup.cmds, remote)
    IN  Resolved(getDatasetNameByGuid(state.id, Listing(remote), fail))

\* ------------------------------------------------ claims on SpecRename

ExportsOf(log) == {i \in 1..Len(log) : log[i].cmd.verb = "export"}

ImportsOf(log) == {i \in 1..Len(log) : log[i].cmd.verb = "import"}

\* C10: renamePool issues 'zpool export <old>' and then 'zpool import <old>
\* <new>', in that order, and the import only after an export that succeeded;
\* when the import fails an error is returned, and when it fails or the call
\* is interrupted after the export, no further command is issued and the pool
\* is left exported, listed under neither name.
C10_ExportThenImport ==
    /\ \A i \in ExportsOf(ren.log) :
          /\ ren.log[i].cmd.text = Str_zpool_export \o ren.old_name
          /\ ren.cfg.name # ren.old_name
          /\ (ren.log[i].ok /\ i < Len(ren.log)) => (i + 1) \in ImportsOf(ren.log)
          /\ ~ren.log[i].ok => (i = Len(ren.log) /\ ren.pc = "done" /\ ren.err # NoError)
    /\ \A i \in ImportsOf(ren.log) :
          /\ ren.log[i].cmd.text = Str_zpool_import \o ren.old_name \o Str_space \o ren.cfg.name
          /\ (i - 1) \in ExportsOf(ren.log)
          /\ ren.log[i - 1].ok
          /\ ~ren.log[i].ok =>
                /\ ren.pc = "done"
                /\ ren.err = CommandError(ren.err.type, ren.log[i].cmd.text)
                /\ i = Len(ren.log)
                /\ ren.remote.status = "exported"
                /\ Listing(ren.remote) = <<>>
    /\ (ren.pc = "interrupted" /\ Len(ren.log) \in ExportsOf(ren.log) /\ ren.log[Len(ren.log)].ok)
          => (ren.remote.status = "exported" /\ Listing(ren.remote) = <<>>)
    /\ (ren.pc = "renamed" /\ ren.cfg.name # ren.old_name)
          => (Len(ren.log) \in ImportsOf(ren.log) /\ ren.log[Len(ren.log)].ok
              /\ Listing(ren.remote) = <<<<ren.cfg.name, ren.remote.guid>>>>)

\* The export succeeded and the import failed: the Update returned the
\* import's error and the pool is exported.
C10_Witness ==
    /\ ren.pc = "done"
    /\ Len(ren.log) = 3
    /\ ren.log[2].cmd.verb = "export" /\ ren.log[2].ok
    /\ ren.log[3].cmd.verb = "import" /\ ~ren.log[3].ok
    /\ ren.err # NoError
    /\ ren.remote.status = "exported"

\* --------------------------------------------------------------- Spec

\* A dataset resource over refreshes and applies of one configuration.

LifecycleNames == {Str_compression, Str_usertag}

LifecycleChoices ==
    { Property(SourceLocal, Str_on, Str_on),
      Property(SourceTemporary, Str_off, Str_off),
      Property(SourceInherited, Str_on, Str_on) }

\* What zfs get all answers for the dataset: its type, guid and mountpoint,
\* and the properties in extra.
LifecycleAnswers(mountpoint, extra) ==
    [all |-> [n \in {Str_type, Str_guid, Str_mountpoint} \cup DOMAIN extra |->
                 IF n = Str_type THEN Property(SourceNone, Str_filesystem, Str_filesystem)
                 ELSE IF n = Str_guid THEN Property(SourceNone, Str_101, Str_101)
                 ELSE IF n = Str_mountpoint THEN Property(SourceLocal, mountpoint, mountpoint)
                 ELSE extra[n]],
     extra |-> EmptyMap]

LifecycleFailures(n) ==
    {NoFail} \cup [at : 1..n, type : {"StderrError", "SshConnectError"}]

Init ==
    /\ \E cfg \in [name : {Str_tank_ds}, mountpoint : {Str_none, Str_mnt},
                   property : DeclaredSets(LifecycleNames, MaxDeclared),
                   property_mode : {"defined", "native", "all"}],
          name \in {Str_tank_ds, Str_tank_old},
          mountpoint \in {Str_none, Str_mnt},
          extra \in MapsUpTo(LifecycleNames, LifecycleChoices, MaxObserved) :
         res = [pc |-> "applied",
                cfg |-> cfg,
                d |-> [id |-> Str_101, name |-> cfg.name, mountpoint |-> cfg.mountpoint,
                       property |-> cfg.property, property_mode |-> cfg.property_mode,
                       properties |-> EmptyMap, raw_properties |-> EmptyMap],
                remote |-> [name |-> name, guid |-> Str_101, status |-> "available",
                            others |-> <<<<Str_tank, Str_100>>>>,
                            layout |-> <<>>,
                            zfs |-> LifecycleAnswers(mountpoint, extra),
                            zpool |-> [all |-> EmptyMap, extra |-> EmptyMap]],
                seen |-> EmptyMap,
                log |-> <<>>,
                err |-> NoError]
    /\ ups = Idle
    /\ apd = Idle
    /\ cre = Idle
    /\ ren = Idle
    /\ hnd = Idle
    /\ ssh = Idle
    /\ cls = Idle
    /\ lay = Idle
    /\ rac = Idle
    /\ rdp = Idle

\* A refresh: the state is stored when the Read succeeds.
ResourceDatasetRead ==
    /\ res.pc \in {"applied", "read", "updated", "failed"}
    /\ \E fail \in LifecycleFailures(Len(resourceDatasetRead(res.d, res.remote, NoFail).cmds)) :
         LET Done(r) ==
                 res' = [res EXCEPT !.pc = IF r.err = NoError THEN "read" ELSE "failed",
                                    !.d = IF r.err = NoError THEN r.d ELSE @,
                                    !.seen = IF r.err = NoError THEN r.seen ELSE EmptyMap,
                                    !.log = LoggedHandler(r),
                                    !.err = r.err]
         IN  Done(resourceDatasetRead(res.d, res.remote, fail))
    /\ UNCHANGED <<ups, apd, cre, ren, hnd, ssh, cls, lay, rac, rdp>>

\* An apply after a refresh: the planned values are stored when the Update
\* fails, what its Read set when it succeeds.
ResourceDatasetUpdate ==
    /\ res.pc = "read"
    /\ \E resetOrder \in Perms(RemovedNames(DatasetOverrides(res.cfg), res.d.property,
                                            res.cfg.property)),
          setOrder \in Perms(DesiredNames(DatasetOverrides(res.cfg), res.cfg.property)) :
       \E fail \in LifecycleFailures(Len(resourceDatasetUpdate(res.cfg, res.d, res.remote,
                                             resetOrder, setOrder, NoFail).cmds)) :
         LET Done(r) ==
                 res' = [res EXCEPT !.pc = IF r.err = NoError THEN "updated" ELSE "failed",
                                    !.d = r.d,
                                    !.remote = r.remote,
                                    !.log = LoggedHandler(r),
                                    !.err = r.err]
         IN  Done(resourceDatasetUpdate(res.cfg, res.d, res.remote, resetOrder, setOrder, fail))
    /\ UNCHANGED <<ups, apd, cre, ren, hnd, ssh, cls, lay, rac, rdp>>

Next == ResourceDatasetRead \/ ResourceDatasetUpdate

Spec == Init /\ [][Next]_vars

\* ------------------------------------------------------ claims on Spec

\* The names of the reset commands a handler issued.
ResetNames(log) ==
    {log[i].cmd.name : i \in {j \in 1..Len(log) : log[j].cmd.verb \in {"inherit", "setnone"}}}

\* The observed properties property_mode native or all tracks although the
\* configuration does not declare them.
Resettable(cfg, seen) ==
    {name \in DOMAIN seen :
        /\ name \notin BlockNames(cfg.property)
        /\ name # Str_mountpoint
        /\ ~isPoolProperty(name)
        /\ seen[name].source \in {SourceLocal, SourceTemporary}
        /\ cfg.property_mode = "native" => ~Contains(name, Str_colon)}

\* An Update that followed a Read of the same configuration and succeeded,
\* under property_mode native or all.
UpdatedAfterRead ==
    /\ res.pc = "updated"
    /\ res.cfg.property_mode \in {"native", "all"}

\* C3, its first half: the Update resets every observed property that is
\* not declared, not ignored, not a pool property, local or temporary and
\* (for native) without ':' in its name, with 'zfs inherit -S <name>
\* <target>' or 'zfs set <name>=none <target>'.
C3_UndeclaredAreReset ==
    UpdatedAfterRead =>
        \A name \in Resettable(res.cfg, res.seen) :
            \E i \in 1..Len(res.log) :
                /\ res.log[i].cmd.text = ResetText(name, res.cfg.name)
                /\ res.log[i].ok

\* C3 (as stated): the first half, and the Update issues no reset for any
\* declared property.
C3_ResetsOnlyUndeclared ==
    UpdatedAfterRead =>
        /\ \A name \in Resettable(res.cfg, res.seen) :
              \E i \in 1..Len(res.log) :
                  /\ res.log[i].cmd.text = ResetText(name, res.cfg.name)
                  /\ res.log[i].ok
        /\ ResetNames(res.log) \cap BlockNames(res.cfg.property) = {}

\* ----------------------------------------------------------- handlers

\* The handlers below return the ResourceData, the error, the log of their
\* commands (each with whether it succeeded) and the remote they leave.

\* A Go panic: the handler does not return to its caller.
Panic(msg) == [type |-> "panic", msg |-> msg]

\* The error came from callSshCommand.
IsCommandError(err) == "cmd" \in DOMAIN err

\* case *DatasetError with errmsg "dataset does not exist" (*PoolError with
\* "zpool does not exist"): the error callSshCommand builds, not another of
\* the type.
IsNotExist(err, type) == err.type = type /\ IsCommandError(err)

\* The log of a step: the last command failed when the error is a command's.
LogOf(r) ==
    [i \in 1..Len(r.cmds) |->
        [cmd |-> r.cmds[i], ok |-> ~(i = Len(r.cmds) /\ IsCommandError(r.err))]]

\* updateCalculatedPropertiesInState
updateCalculatedPropertiesInState(d, properties) ==
    [d EXCEPT !.properties = flattenProperties(properties),
              !.raw_properties = flattenRawProperties(properties)]

\* dataSourceFilesystemRead: the schema of the data source has no property
\* block, so no property is required by name.
dataSourceFilesystemRead(d, remote, fail) ==
    LET Owned(d1, filesystem, ownership) ==
            IF ownership.err # NoError
            THEN [d |-> d1, err |-> ownership.err,
                  log |-> LogOf(filesystem) \o LogOf(ownership), remote |-> remote]
            ELSE [d |-> updateCalculatedPropertiesInState(
                            [d1 EXCEPT !.mountpoint = filesystem.entity.mountpoint],
                            filesystem.entity.properties),
                  err |-> NoError,
                  log |-> LogOf(filesystem) \o LogOf(ownership), remote |-> remote]
        Described(filesystem) ==
            IF filesystem.err # NoError /\ ~IsNotExist(filesystem.err, "DatasetError")
            THEN [d |-> d, err |-> filesystem.err, log |-> LogOf(filesystem),
                  remote |-> remote]
            ELSE IF filesystem.entity = Nil
            THEN [d |-> d, err |-> Panic("nil pointer dereference"),
                  log |-> LogOf(filesystem), remote |-> remote]
            ELSE IF /\ filesystem.entity.mountpoint # Str_empty
                    /\ filesystem.entity.mountpoint # Str_none
                    /\ filesystem.entity.mountpoint # Str_legacy
            THEN Owned([d EXCEPT !.id = filesystem.entity.guid], filesystem,
                       getFileOwnership(filesystem.entity.mountpoint,
                                        Shift(fail, Len(filesystem.cmds))))
            ELSE [d |-> updateCalculatedPropertiesInState(
                            [d EXCEPT !.id = filesystem.entity.guid],
                            filesystem.entity.properties),
                  err |-> NoError, log |-> LogOf(filesystem), remote |-> remote]
    IN  Described(describeDataset(d.name, <<>>, remote.zfs,
                                  Forced(Available(remote, d.name), "DatasetError", fail)))

\* dataSourceVolumeRead: the statements of dataSourceFilesystemRead.
dataSourceVolumeRead(d, remote, fail) == dataSourceFilesystemRead(d, remote, fail)

dataSourcePoolRead(d, remote, fail) ==
    LET Described(pool) ==
            IF pool.err # NoError
            THEN [d |-> d, err |-> pool.err, log |-> LogOf(pool), remote |-> remote]
            ELSE [d |-> [updateCalculatedPropertiesInState(d, pool.entity.properties)
                            EXCEPT !.id = pool.entity.guid],
                  err |-> NoError, log |-> LogOf(pool), remote |-> remote]
    IN  Described(describePool(d.name, <<>>, remote,
                               Forced(Available(remote, d.name), "PoolError", fail)))

destroyDataset(datasetName, fail) ==
    LET c == Cmd(Str_zfs_destroy \o datasetName, "destroy", datasetName, Str_empty, {})
    IN  IF fail.at = 1
        THEN [err |-> CommandError(fail.type, c.text), cmds |-> <<c>>]
        ELSE [err |-> NoError, cmds |-> <<c>>]

destroyPool(poolName, fail) ==
    LET c == Cmd(Str_zpool_destroy \o poolName, "destroy", poolName, Str_empty, {})
    IN  IF fail.at = 1
        THEN [err |-> CommandError(fail.type, c.text), cmds |-> <<c>>]
        ELSE [err |-> NoError, cmds |-> <<c>>]

resourceDatasetDelete(d, remote, fail) ==
    LET Destroyed(r) ==
            IF r.err # NoError
            THEN [d |-> d, err |-> r.err, log |-> LogOf(r), remote |-> remote]
            ELSE [d |-> [d EXCEPT !.id = Str_empty], err |-> NoError, log |-> LogOf(r),
                  remote |-> [remote EXCEPT !.status = "destroyed"]]
    IN  Destroyed(destroyDataset(d.name,
                                 Forced(Available(remote, d.name), "DatasetError", fail)))

resourcePoolDelete(d, remote, fail) ==
    LET Destroyed(r) ==
            IF r.err # NoError
            THEN [d |-> d, err |-> r.err, log |-> LogOf(r), remote |-> remote]
            ELSE [d |-> [d EXCEPT !.id = Str_empty], err |-> NoError, log |-> LogOf(r),
                  remote |-> [remote EXCEPT !.status = "destroyed"]]
    IN  Destroyed(destroyPool(d.name, Forced(Available(remote, d.name), "PoolError", fail)))

\* The outcome of the create command: it fails when the name is taken, and
\* otherwise as the oracle says.
CreateOutcome(remote, name, fail) ==
    IF Available(remote, name) THEN "StderrError"
    ELSE IF fail.at = 1 THEN fail.type
    ELSE "ok"

\* The remote after the create command.
AfterCreate(remote, name, failCreate) ==
    IF failCreate = "ok" THEN [remote EXCEPT !.status = "available", !.name = name]
    ELSE remote

\* The log of createDataset / createPool: the create command, then the
\* commands of the describe.
CreateLog(created, failCreate, fetch) ==
    <<[cmd |-> created.cmds[1], ok |-> failCreate = "ok"]>> \o LogOf(fetch)

\* resourceDatasetCreate: the probe, createDataset, and the ownership
\* commands unless the declared mountpoint is none or legacy.
resourceDatasetCreate(d, remote, optionOrder, keyOrder, fail) ==
    LET dataset == [name |-> d.name, mountpoint |-> d.mountpoint, dsType |-> Str_empty,
                    sparse |-> FALSE, volsize |-> Str_empty,
                    properties |-> parsePropertyBlocks(d.property)]
        Owned(d1, log, remote1, ownership) ==
            [d |-> d1, err |-> ownership.err, log |-> log \o LogOf(ownership),
             remote |-> remote1]
        Created(probe, failCreate, remote1, created, fetch) ==
            IF created.err # NoError
            THEN [d |-> d, err |-> created.err,
                  log |-> LogOf(probe) \o CreateLog(created, failCreate, fetch),
                  remote |-> remote1]
            ELSE Owned([d EXCEPT !.id = created.entity.guid],
                       LogOf(probe) \o CreateLog(created, failCreate, fetch), remote1,
                       IF d.mountpoint # Str_none /\ d.mountpoint # Str_legacy
                       THEN setOwnership(d, d.mountpoint, OwnershipKeys,
                                         Shift(fail, Len(probe.cmds) + 1 + Len(fetch.cmds)))
                       ELSE [err |-> NoError, cmds |-> <<>>])
        Create(probe, failCreate, remote1, failDescribe) ==
            Created(probe, failCreate, remote1,
                    createDataset(dataset, optionOrder, keyOrder, remote1.zfs,
                                  failCreate, failDescribe),
                    describeDataset(dataset.name, keyOrder, remote1.zfs, failDescribe))
        Attempt(probe, failCreate) ==
            Create(probe, failCreate, AfterCreate(remote, d.name, failCreate),
                   Forced(Available(AfterCreate(remote, d.name, failCreate), d.name),
                          "DatasetError", Shift(fail, Len(probe.cmds) + 1)))
        Probed(probe) ==
            IF probe.err # NoError /\ ~IsNotExist(probe.err, "DatasetError")
            THEN [d |-> d, err |-> probe.err, log |-> LogOf(probe), remote |-> remote]
            ELSE Attempt(probe, CreateOutcome(remote, d.name, Shift(fail, Len(probe.cmds))))
    IN  Probed(describeDataset(d.name, getPropertyNames(d), remote.zfs,
                               Forced(Available(remote, d.name), "DatasetError", fail)))

RECURSIVE DevicePaths(_)
DevicePaths(devices) ==
    IF devices = <<>> THEN Str_empty
    ELSE Str_space \o Head(devices) \o DevicePaths(Tail(devices))

RECURSIVE MirrorSpecs(_)
MirrorSpecs(mirrors) ==
    IF mirrors = <<>> THEN Str_empty
    ELSE Str_space_mirror \o DevicePaths(Head(mirrors)) \o MirrorSpecs(Tail(mirrors))

\* parseVdevSpecification: a mirror is the list of its device paths.
parseVdevSpecification(mirrors, devices) == MirrorSpecs(mirrors) \o DevicePaths(devices)

\* resourcePoolCreate with populateResourceDataPool.
resourcePoolCreate(d, remote, optionOrder, keyOrder, fail) ==
    LET pool == [name |-> d.name, vdevs |-> parseVdevSpecification(d.mirror, d.device),
                 properties |-> parsePropertyBlocks(d.property)]
        Populate(log, remote1, created, upd) ==
            IF upd.err # NoError
            THEN [d |-> upd.d, err |-> upd.err, log |-> log, remote |-> remote1]
            ELSE [d |-> [upd.d EXCEPT !.id = created.entity.guid], err |-> NoError,
                  log |-> log, remote |-> remote1]
        Created(probe, failCreate, remote1, created, fetch) ==
            IF created.err # NoError
            THEN [d |-> d, err |-> created.err,
                  log |-> LogOf(probe) \o CreateLog(created, failCreate, fetch),
                  remote |-> remote1]
            ELSE Populate(LogOf(probe) \o CreateLog(created, failCreate, fetch), remote1,
                          created,
                          updatePropertiesInState(
                              [d EXCEPT !.id = created.entity.guid,
                                        !.layout = created.entity.layout],
                              created.entity.properties, {}))
        Create(probe, failCreate, remote1, failDescribe) ==
            Created(probe, failCreate, remote1,
                    createPool(pool, optionOrder, keyOrder, remote1, failCreate, failDescribe),
                    describePool(pool.name, keyOrder, remote1, failDescribe))
        Attempt(probe, failCreate) ==
            Create(probe, failCreate, AfterCreate(remote, d.name, failCreate),
                   Forced(Available(AfterCreate(remote, d.name, failCreate), d.name),
                          "PoolError", Shift(fail, Len(probe.cmds) + 1)))
        Probed(probe) ==
            IF probe.err # NoError /\ ~IsNotExist(probe.err, "PoolError")
            THEN [d |-> d, err |-> probe.err, log |-> LogOf(probe), remote |-> remote]
            ELSE Attempt(probe, CreateOutcome(remote, d.name, Shift(fail, Len(probe.cmds))))
    IN  Probed(describePool(d.name, getPropertyNames(d), remote,
                            Forced(Available(remote, d.name), "PoolError", fail)))

\* ------------------------------------------------------- SpecHandlers

\* One call of a handler of the dataset resource, of the pool resource or of
\* a data source, against a remote host.

\* What zfs get all answers for a dataset: a volume has no mountpoint.
HandlerAnswers(type, mountpoint) ==
    [all |-> [n \in {Str_type, Str_guid, Str_compression}
                    \cup (IF type = Str_volume THEN {} ELSE {Str_mountpoint}) |->
                 IF n = Str_type THEN Property(SourceNone, type, type)
                 ELSE IF n = Str_guid THEN Property(SourceNone, Str_101, Str_101)
                 ELSE IF n = Str_compression THEN Property(SourceLocal, Str_on, Str_on)
                 ELSE Property(SourceLocal, mountpoint, mountpoint)],
     extra |-> EmptyMap]

HandlerDatasetRemotes ==
    {[name |-> name, guid |-> Str_101, status |-> status, others |-> others,
      layout |-> <<>>, zfs |-> HandlerAnswers(v[1], v[2]),
      zpool |-> [all |-> EmptyMap, extra |-> EmptyMap]] :
        name \in {Str_tank_ds, Str_tank_old},
        status \in {"available", "destroyed"},
        others \in {<<>>, <<<<Str_tank, Str_100>>>>},
        v \in {<<Str_filesystem, Str_none>>, <<Str_filesystem, Str_legacy>>,
               <<Str_filesystem, Str_mnt>>, <<Str_volume, Str_empty>>}}

HandlerPoolRemotes ==
    {[name |-> name, guid |-> Str_101, status |-> status, others |-> others,
      layout |-> <<<<Str_tank, Str_empty>>, <<Str_empty, Str_dev_a>>>>,
      zfs |-> DatasetAnswers(Str_filesystem), zpool |-> PoolAnswers] :
        name \in {Str_tank, Str_newtank},
        status \in {"available", "destroyed"},
        others \in {<<>>, <<<<Str_tank_old, Str_100>>>>}}

HandlerIds == {Str_empty, Str_101, Str_202}

\* The declared mountpoint: the schema's default none, legacy, or a path.
HandlerMountpoints == {Str_none, Str_legacy, Str_mnt}

\* The ownership attributes of a configuration: none, a uid, or an owner and
\* a gid (the schema lets uid and owner, gid and group, be set one of each).
HandlerOwnerships ==
    {EmptyMap, [k \in {"uid"} |-> 1000],
     [k \in {"owner", "gid"} |-> IF k = "owner" THEN Str_zed ELSE 100]}

WithOwnership(d, ownership) ==
    [k \in DOMAIN d \cup DOMAIN ownership |->
        IF k \in DOMAIN ownership THEN ownership[k] ELSE d[k]]

\* The ownership attributes of the stored state before an Update: as
\* declared, or not set yet.
PriorOwnerships(d) == {d, ClearOwnership(d)}

InitHandlers ==
    /\ \E id \in HandlerIds :
          \/ \E property \in DeclaredSets({Str_compression}, MaxDeclared),
                remote \in HandlerDatasetRemotes,
                mountpoint \in HandlerMountpoints,
                ownership \in HandlerOwnerships :
                hnd = [pc |-> "call", kind |-> "dataset", op |-> "none",
                       d0 |-> WithOwnership(
                                  [id |-> id, name |-> Str_tank_ds, mountpoint |-> mountpoint,
                                   property |-> property, property_mode |-> "defined",
                                   properties |-> EmptyMap, raw_properties |-> EmptyMap],
                                  ownership),
                       remote0 |-> remote, d |-> Nil, remote |-> remote,
                       log |-> <<>>, err |-> NoError]
          \/ \E property \in DeclaredSets({Str_ashift}, MaxDeclared),
                remote \in HandlerPoolRemotes :
                hnd = [pc |-> "call", kind |-> "pool", op |-> "none",
                       d0 |-> [id |-> id, name |-> Str_tank,
                               property |-> property, property_mode |-> "defined",
                               properties |-> EmptyMap, raw_properties |-> EmptyMap,
                               layout |-> Nil, mirror |-> <<>>, device |-> <<Str_dev_a>>],
                       remote0 |-> remote, d |-> Nil, remote |-> remote,
                       log |-> <<>>, err |-> NoError]
    /\ ups = Idle
    /\ apd = Idle
    /\ cre = Idle
    /\ ren = Idle
    /\ res = Idle
    /\ ssh = Idle
    /\ cls = Idle
    /\ lay = Idle
    /\ rac = Idle
    /\ rdp = Idle

\* The handler returned r.
Returned(op, r) ==
    /\ hnd' = [hnd EXCEPT !.pc = "returned", !.op = op, !.d = r.d, !.remote = r.remote,
                         !.log = r.log, !.err = r.err]
    /\ UNCHANGED <<ups, apd, cre, ren, res, ssh, cls, lay, rac, rdp>>

\* A result of the handlers of the resources, with its log.
WithLog(r, remote) ==
    [d |-> r.d, err |-> r.err, log |-> LoggedHandler(r), remote |-> remote]

HandleDatasetRead ==
    /\ hnd.pc = "call" /\ hnd.kind = "dataset"
    /\ \E fail \in Failures(Len(resourceDatasetRead(hnd.d0, hnd.remote0, NoFail).cmds)) :
         LET Done(r) == Returned("resourceDatasetRead", WithLog(r, hnd.remote0))
         IN  Done(resourceDatasetRead(hnd.d0, hnd.remote0, fail))

HandleDatasetUpdate ==
    /\ hnd.pc = "call" /\ hnd.kind = "dataset" /\ hnd.d0.id # Str_empty
    /\ \E setOrder \in Perms(DesiredNames(DatasetOverrides(hnd.d0), hnd.d0.property)),
          state \in PriorOwnerships(hnd.d0) :
       \E fail \in Failures(Len(resourceDatasetUpdate(hnd.d0, state, hnd.remote0, <<>>,
                                                      setOrder, NoFail).cmds)) :
         LET Done(r) == Returned("resourceDatasetUpdate", WithLog(r, r.remote))
         IN  Done(resourceDatasetUpdate(hnd.d0, state, hnd.remote0, <<>>, setOrder, fail))

HandleDatasetCreate ==
    /\ hnd.pc = "call" /\ hnd.kind = "dataset" /\ hnd.d0.id = Str_empty
    /\ \E order \in Perms(BlockNames(hnd.d0.property)) :
       \E fail \in Failures(Len(resourceDatasetCreate(hnd.d0, hnd.remote0, order, order,
                                                      NoFail).log)) :
         LET Done(r) == Returned("resourceDatasetCreate", r)
         IN  Done(resourceDatasetCreate(hnd.d0, hnd.remote0, order, order, fail))

HandleDatasetDelete ==
    /\ hnd.pc = "call" /\ hnd.kind = "dataset" /\ hnd.d0.id # Str_empty
    /\ \E fail \in Failures(1) :
         LET Done(r) == Returned("resourceDatasetDelete", r)
         IN  Done(resourceDatasetDelete(hnd.d0, hnd.remote0, fail))

HandleFilesystemDataRead ==
    /\ hnd.pc = "call" /\ hnd.kind = "dataset" /\ hnd.d0.id = Str_empty
    /\ \E fail \in Failures(Len(dataSourceFilesystemRead(hnd.d0, hnd.remote0, NoFail).log)) :
         LET Done(r) == Returned("dataSourceFilesystemRead", r)
         IN  Done(dataSourceFilesystemRead(hnd.d0, hnd.remote0, fail))

HandleVolumeDataRead ==
    /\ hnd.pc = "call" /\ hnd.kind = "dataset" /\ hnd.d0.id = Str_empty
    /\ \E fail \in Failures(Len(dataSourceVolumeRead(hnd.d0, hnd.remote0, NoFail).log)) :
         LET Done(r) == Returned("dataSourceVolumeRead", r)
         IN  Done(dataSourceVolumeRead(hnd.d0, hnd.remote0, fail))

HandlePoolRead ==
    /\ hnd.pc = "call" /\ hnd.kind = "pool"
    /\ \E fail \in Failures(Len(resourcePoolRead(hnd.d0, hnd.remote0, NoFail).cmds)) :
         LET Done(r) == Returned("resourcePoolRead", WithLog(r, hnd.remote0))
         IN  Done(resourcePoolRead(hnd.d0, hnd.remote0, fail))

HandlePoolCreate ==
    /\ hnd.pc = "call" /\ hnd.kind = "pool" /\ hnd.d0.id = Str_empty
    /\ \E order \in Perms(BlockNames(hnd.d0.property)) :
       \E fail \in Failures(Len(resourcePoolCreate(hnd.d0, hnd.remote0, order, order,
                                                   NoFail).log)) :
         LET Done(r) == Returned("resourcePoolCreate", r)
         IN  Done(resourcePoolCreate(hnd.d0, hnd.remote0, order, order, fail))

HandlePoolUpdate ==
    /\ hnd.pc = "call" /\ hnd.kind = "pool" /\ hnd.d0.id # Str_empty
    /\ \E setOrder \in Perms(DesiredNames(EmptyMap, hnd.d0.property)) :
       \E fail \in Failures(Len(resourcePoolUpdate(hnd.d0, hnd.d0, hnd.remote0, <<>>,
                                                   setOrder, NoFail).cmds)) :
         LET Done(r) == Returned("resourcePoolUpdate", WithLog(r, r.remote))
         IN  Done(resourcePoolUpdate(hnd.d0, hnd.d0, hnd.remote0, <<>>, setOrder, fail))

HandlePoolDelete ==
    /\ hnd.pc = "call" /\ hnd.kind = "pool" /\ hnd.d0.id # Str_empty
    /\ \E fail \in Failures(1) :
         LET Done(r) == Returned("resourcePoolDelete", r)
         IN  Done(resourcePoolDelete(hnd.d0, hnd.remote0, fail))

HandlePoolDataRead ==
    /\ hnd.pc = "call" /\ hnd.kind = "pool" /\ hnd.d0.id = Str_empty
    /\ \E fail \in Failures(Len(dataSourcePoolRead(hnd.d0, hnd.remote0, NoFail).log)) :
         LET Done(r) == Returned("dataSourcePoolRead", r)
         IN  Done(dataSourcePoolRead(hnd.d0, hnd.remote0, fail))

NextHandlers ==
    \/ HandleDatasetRead
    \/ HandleDatasetUpdate
    \/ HandleDatasetCreate
    \/ HandleDatasetDelete
    \/ HandleFilesystemDataRead
    \/ HandleVolumeDataRead
    \/ HandlePoolRead
    \/ HandlePoolCreate
    \/ HandlePoolUpdate
    \/ HandlePoolDelete
    \/ HandlePoolDataRead

SpecHandlers == InitHandlers /\ [][NextHandlers]_vars

\* ---------------------------------------------- claims on SpecHandlers

\* s ends with suffix.
HasSuffix(s, suffix) ==
    Len(s) >= Len(suffix) /\ SubSeq(s, Len(s) - Len(suffix) + 1, Len(s)) = suffix

\* A Read of a resource returned, and its ResourceData held an ID.
ReadWithId ==
    /\ hnd.pc = "returned"
    /\ hnd.op \in {"resourceDatasetRead", "resourcePoolRead"}
    /\ hnd.d0.id # Str_empty

\* The rows of the listing whose guid is the stored ID.
RowsOfId == {i \in DOMAIN Listing(hnd.remote0) : Listing(hnd.remote0)[i][2] = hnd.d0.id}

\* The commands by which a describe reads a resource.
DescribeVerbs == {"get", "getp", "layout"}

\* C11: a Read with a stored ID first lists 'name,guid'; the name it
\* describes and writes to the state is the name listed with the stored
\* guid, and when no listed resource has that guid (or the listing fails)
\* the Read fails with the not-found error and describes nothing.
C11_ReadResolvesNameByGuid ==
    ReadWithId =>
        /\ Len(hnd.log) >= 1
        /\ hnd.log[1].cmd.text =
              (IF hnd.kind = "dataset" THEN Str_zfs ELSE Str_zpool) \o Str_list
        /\ (~hnd.log[1].ok \/ RowsOfId = {}) =>
              /\ Len(hnd.log) = 1
              /\ hnd.err.type = "error"
        /\ (hnd.log[1].ok /\ RowsOfId # {}) =>
              \A i \in RowsOfId :
                 /\ Len(hnd.log) >= 2
                 /\ \A j \in 2..Len(hnd.log) :
                       hnd.log[j].cmd.verb \in DescribeVerbs
                          => HasSuffix(hnd.log[j].cmd.text,
                                       Str_space \o Listing(hnd.remote0)[i][1])
                 /\ hnd.log[2].cmd.verb \in DescribeVerbs
                 /\ hnd.err = NoError => hnd.d.name = Listing(hnd.remote0)[i][1]

\* A dataset renamed outside: the Read found its guid in the second row,
\* described it under the listed name and stored that name.
C11_Witness ==
    /\ ReadWithId
    /\ hnd.kind = "dataset"
    /\ hnd.remote0.name # hnd.d0.name
    /\ RowsOfId = {2}
    /\ hnd.err = NoError
    /\ hnd.d.name = hnd.remote0.name

\* A read of a dataset returned: of the resource or of a data source.
DatasetReadReturned ==
    /\ hnd.pc = "returned"
    /\ hnd.op \in {"resourceDatasetRead", "dataSourceFilesystemRead", "dataSourceVolumeRead"}

\* The mountpoint a describe of the remote dataset reports.
DescribedMountpoint == ValueOf(hnd.remote0.zfs.all, Str_mountpoint)

StatsOf(log) == {i \in 1..Len(log) : log[i].cmd.verb = "stat"}

\* C12: a read whose described mountpoint is "", "none" or "legacy" issues
\* no stat command, be it the read of the resource or of a data source.
C12_NoStatForSentinelMountpoint ==
    (DatasetReadReturned /\ DescribedMountpoint \in {Str_empty, Str_none, Str_legacy})
        => StatsOf(hnd.log) = {}

\* The handlers that go to the remote by the name in their ResourceData,
\* the existence probes of the creates apart.
ByNameHandlers ==
    {"resourceDatasetRead", "resourcePoolRead", "resourceDatasetDelete", "resourcePoolDelete",
     "dataSourceFilesystemRead", "dataSourceVolumeRead", "dataSourcePoolRead"}

\* Such a handler returned, and the remote has no resource of that name:
\* its first command answers 'dataset does not exist' or 'no such pool'.
NotFoundByName ==
    /\ hnd.pc = "returned"
    /\ hnd.op \in ByNameHandlers
    /\ hnd.op \in {"resourceDatasetRead", "resourcePoolRead"} => hnd.d0.id = Str_empty
    /\ ~Available(hnd.remote0, hnd.d0.name)

\* C13: outside the existence probe of a Create, a DatasetNotFound or
\* PoolNotFound result is returned to the caller unchanged as the error, and
\* the operation issues no further command.
C13_NotFoundPropagates ==
    NotFoundByName =>
        /\ Len(hnd.log) = 1
        /\ ~hnd.log[1].ok
        /\ hnd.err = CommandError(IF hnd.kind = "dataset" THEN "DatasetError" ELSE "PoolError",
                                  hnd.log[1].cmd.text)

\* ------------------------------------------------------ callSshCommand

Str_newline == <<"\n">>

\* strings.TrimSuffix
TrimSuffix(s, suffix) ==
    IF Len(s) >= Len(suffix) /\ SubSeq(s, Len(s) - Len(suffix) + 1, Len(s)) = suffix
    THEN SubSeq(s, 1, Len(s) - Len(suffix))
    ELSE s

\* The errors of callSshCommand, with what each carries.
DatasetErrorOf(errmsg) == [type |-> "DatasetError", errmsg |-> errmsg]

PoolErrorOf(errmsg) == [type |-> "PoolError", errmsg |-> errmsg]

StderrErrorOf(stderr) == [type |-> "StderrError", stderr |-> stderr]

SshConnectErrorOf(inner) == [type |-> "SshConnectError", inner |-> inner]

\* A classification that looks at the transport before stderr.
callSshCommand_TransportFirst(run) ==
    IF run.err # Nil
    THEN [stdout |-> Str_empty, err |-> SshConnectErrorOf(run.err)]
    ELSE IF ~run.done
    THEN [stdout |-> Str_empty, err |-> SshConnectErrorOf(Str_command_timed_out)]
    ELSE IF run.stderr # Str_empty
    THEN IF Contains(run.stderr, Str_dataset_does_not_exist)
         THEN [stdout |-> Str_empty, err |-> DatasetErrorOf(Str_dataset_does_not_exist)]
         ELSE IF Contains(run.stderr, Str_no_such_pool)
         THEN [stdout |-> Str_empty, err |-> PoolErrorOf(Str_zpool_does_not_exist)]
         ELSE [stdout |-> Str_empty, err |-> StderrErrorOf(run.stderr)]
    ELSE [stdout |-> TrimSuffix(run.stdout, Str_newline), err |-> NoError]

\* callSshCommand after ssh.Run returned run = (stdout, stderr, done, err).
callSshCommand(run) ==
    IF run.stderr # Str_empty
    THEN IF Contains(run.stderr, Str_dataset_does_not_exist)
         THEN [stdout |-> Str_empty, err |-> DatasetErrorOf(Str_dataset_does_not_exist)]
         ELSE IF Contains(run.stderr, Str_no_such_pool)
         THEN [stdout |-> Str_empty, err |-> PoolErrorOf(Str_zpool_does_not_exist)]
         ELSE [stdout |-> Str_empty, err |-> StderrErrorOf(run.stderr)]
    ELSE IF run.err # Nil
    THEN [stdout |-> Str_empty, err |-> SshConnectErrorOf(run.err)]
    ELSE IF ~run.done
    THEN [stdout |-> Str_empty, err |-> SshConnectErrorOf(Str_command_timed_out)]
    ELSE [stdout |-> TrimSuffix(run.stdout, Str_newline), err |-> NoError]

\* ------------------------------------------------------------ SpecSsh

\* What ssh.Run may hand back.
RunStdouts ==
    {Str_empty, Str_newline, Str_tank_line, Str_tank_line \o Str_newline,
     Str_tank_line \o Str_newline \o Str_newline,
     Str_tank_line \o Str_newline \o Str_tank_line}

RunStderrs ==
    {Str_empty, Str_dataset_does_not_exist, Str_cannot_open_dataset, Str_cannot_open_pool,
     Str_both_messages, Str_permission_denied, Str_Dataset_capital, Str_newline}

RunErrors == {Nil, Str_EOF}

InitSsh ==
    /\ ssh \in [pc : {"call"},
                run : [stdout : RunStdouts, stderr : RunStderrs, done : BOOLEAN,
                       err : RunErrors],
                result : {Nil}]
    /\ ups = Idle
    /\ apd = Idle
    /\ cre = Idle
    /\ ren = Idle
    /\ res = Idle
    /\ hnd = Idle
    /\ cls = Idle
    /\ lay = Idle
    /\ rac = Idle
    /\ rdp = Idle

CallSshCommand ==
    /\ ssh.pc = "call"
    /\ ssh' = [ssh EXCEPT !.pc = "returned", !.result = callSshCommand(ssh.run)]
    /\ UNCHANGED <<ups, apd, cre, ren, res, hnd, cls, lay, rac, rdp>>

NextSsh == CallSshCommand

SpecSsh == InitSsh /\ [][NextSsh]_vars

\* C14: callSshCommand classifies an outcome in this order: stderr with
\* "dataset does not exist" is DatasetNotFound; else stderr with "no such
\* pool" is PoolNotFound; else any stderr is RemoteCommandError with the raw
\* stderr; else a transport error or a command that did not complete is
\* TransportError; else stdout is returned with exactly one trailing newline
\* removed. Stderr comes before the transport error and the timeout.
C14_ClassificationOrder ==
    ssh.pc = "returned" =>
        LET run == ssh.run
            out == ssh.result
            dataset == Contains(run.stderr, Str_dataset_does_not_exist)
            pool == Contains(run.stderr, Str_no_such_pool)
        IN  /\ dataset => out.err = DatasetErrorOf(Str_dataset_does_not_exist)
            /\ (~dataset /\ pool) => out.err.type = "PoolError"
            /\ (~dataset /\ ~pool /\ run.stderr # Str_empty)
                  => out.err = StderrErrorOf(run.stderr)
            /\ (run.stderr = Str_empty /\ (run.err # Nil \/ ~run.done))
                  => out.err.type = "SshConnectError"
            /\ (run.stderr = Str_empty /\ run.err = Nil /\ run.done) =>
                  /\ out.err = NoError
                  /\ \/ run.stdout = out.stdout \o Str_newline
                     \/ /\ run.stdout = out.stdout
                        /\ (run.stdout = Str_empty \/ run.stdout[Len(run.stdout)] # "\n")

\* Stderr and a transport error at once: the call returned the stderr.
C14_Witness ==
    /\ ssh.pc = "returned"
    /\ ssh.run.stderr = Str_permission_denied
    /\ ssh.run.err # Nil
    /\ ~ssh.run.done
    /\ ssh.result.err = StderrErrorOf(Str_permission_denied)

\* ------------------------------------------------------- SpecClassify

\* The names asked: every pool property, the same with a letter more and
\* with its last letter less, and names of dataset and feature properties.
ClassifyNames ==
    Range(poolProperties)
    \cup {p \o Str_s : p \in Range(poolProperties)}
    \cup {SubSeq(p, 1, Len(p) - 1) : p \in Range(poolProperties)}
    \cup {Str_feature_encryption, Str_feature_at, Str_feature, Str_xfeature_at,
          Str_compression, Str_mountpoint, Str_quota, Str_userquota, Str_usertag, Str_empty}

InitClassify ==
    /\ cls \in [pc : {"call"}, name : ClassifyNames, answer : {FALSE}]
    /\ ups = Idle
    /\ apd = Idle
    /\ cre = Idle
    /\ ren = Idle
    /\ res = Idle
    /\ hnd = Idle
    /\ ssh = Idle
    /\ lay = Idle
    /\ rac = Idle
    /\ rdp = Idle

IsPoolProperty ==
    /\ cls.pc = "call"
    /\ cls' = [cls EXCEPT !.pc = "returned", !.answer = isPoolProperty(cls.name)]
    /\ UNCHANGED <<ups, apd, cre, ren, res, hnd, ssh, lay, rac, rdp>>

NextClassify == IsPoolProperty

SpecClassify == InitClassify /\ [][NextClassify]_vars

\* C15: isPoolProperty(name) is true exactly when name is in the list of
\* pool properties or begins with "feature@": true for ashift, autoreplace,
\* autoexpand, readonly and feature@encryption, false for compression,
\* mountpoint and quota.
C15_PoolPropertyExactly ==
    cls.pc = "returned" =>
        /\ cls.answer <=>
              \/ cls.name \in Range(poolProperties)
              \/ /\ Len(cls.name) >= 8
                 /\ SubSeq(cls.name, 1, 8) = <<"f", "e", "a", "t", "u", "r", "e", "@">>
        /\ cls.name \in {Str_ashift, Str_autoreplace, Str_autoexpand, Str_readonly,
                         Str_feature_encryption} => cls.answer
        /\ cls.name \in {Str_compression, Str_mountpoint, Str_quota} => ~cls.answer

\* A name that holds 'feature@' but does not begin with it was asked, and
\* the answer was no.
C15_Witness ==
    /\ cls.pc = "returned"
    /\ cls.name = Str_xfeature_at
    /\ ~cls.answer

\* --------------------------------------------------------- pool layout

flattenDevice(device) == [path |-> device]

flattenMirror(mirror) == [device |-> [i \in 1..Len(mirror) |-> flattenDevice(mirror[i])]]

\* populateResourceDataPool, the device and mirror attributes: one element
\* for each of the layout, at the same index.
populateLayout(d, layout) ==
    [d EXCEPT !.device = [i \in 1..Len(layout.striped) |-> flattenDevice(layout.striped[i])],
              !.mirror = [i \in 1..Len(layout.mirrors) |-> flattenMirror(layout.mirrors[i])]]

\* ---------------------------------------------------------- SpecLayout

\* Most rows of a pool listing after the pool's own.
MaxRows == 5

\* The vdev names of the rows: a mirror and two devices; a listing may name a
\* device more than once.
VdevNames == {Str_mirror_0, Str_dev_a, Str_dev_b}

RECURSIVE RowsUpTo(_)
RowsUpTo(n) ==
    IF n = 0 THEN {<<>>}
    ELSE RowsUpTo(n - 1)
         \cup {Append(rows, <<Str_empty, vdev>>) : rows \in {r \in RowsUpTo(n - 1) : Len(r) = n - 1},
                                                 vdev \in VdevNames}

\* What 'zpool list -HPv' prints: nothing, or the pool's row and the rows of
\* its vdevs.
PoolListings == {<<>>} \cup {<<<<Str_tank, Str_1G>>>> \o rows : rows \in RowsUpTo(MaxRows)}

InitLayout ==
    /\ lay \in [pc : {"call"},
                remote : {[layout |-> listing, zfs |-> DatasetAnswers(Str_filesystem),
                           zpool |-> PoolAnswers] : listing \in PoolListings},
                d : {[device |-> <<>>, mirror |-> <<>>]},
                layout : {Nil},
                err : {NoError},
                cmds : {<<>>}]
    /\ ups = Idle
    /\ apd = Idle
    /\ cre = Idle
    /\ ren = Idle
    /\ res = Idle
    /\ hnd = Idle
    /\ ssh = Idle
    /\ cls = Idle
    /\ rac = Idle
    /\ rdp = Idle

\* describePool and, when it succeeds, the device and mirror attributes that
\* populateResourceDataPool writes.
DescribePool ==
    /\ lay.pc = "call"
    /\ \E fail \in Failures(5) :
          LET Done(pool) ==
                  lay' = [lay EXCEPT !.pc = "done", !.err = pool.err, !.cmds = pool.cmds,
                                     !.layout = IF pool.err = NoError
                                                THEN pool.entity.layout ELSE Nil,
                                     !.d = IF pool.err = NoError
                                           THEN populateLayout(@, pool.entity.layout) ELSE @]
          IN  Done(describePool(Str_tank, <<>>, lay.remote, fail))
    /\ UNCHANGED <<ups, apd, cre, ren, res, hnd, ssh, cls, rac, rdp>>

NextLayout == DescribePool

SpecLayout == InitLayout /\ [][NextLayout]_vars

\* ------------------------------------------------ claims on SpecLayout

\* The vdev names of the listing after the pool's own row, in order.
VdevRows == [i \in 1..(Len(lay.remote.layout) - 1) |-> lay.remote.layout[i + 1][2]]

IsMirrorRow(vdev) == HasPrefix(vdev, Str_mirror)

\* The positions of the mirror rows before position i.
MirrorsBefore(i) == {j \in 1..(i - 1) : IsMirrorRow(VdevRows[j])}

\* The device rows, in listing order, that belong to the k-th mirror row
\* (k = 0: to no mirror).
DevicesOf(k) ==
    SelectSeq([i \in 1..Len(VdevRows) |-> <<i, VdevRows[i]>>],
              LAMBDA r : ~IsMirrorRow(r[2]) /\ Cardinality(MirrorsBefore(r[1])) = k)

RECURSIVE SumLen(_)
SumLen(seqs) == IF seqs = <<>> THEN 0 ELSE Len(Head(seqs).device) + SumLen(Tail(seqs))

PathsOf(devices) == [i \in 1..Len(devices) |-> devices[i].path]

\* C21: the layout written to state follows the rows after the first, in
\* listing order: a row whose name starts with 'mirror' opens a mirror, any
\* other row is a device of the mirror opened last, or a striped device when
\* none is open; nothing is reordered, dropped or merged, so the devices
\* written are as many as the rows that are not mirror rows.
C21_LayoutInListingOrder ==
    (lay.pc = "done" /\ lay.err = NoError) =>
        /\ PathsOf(lay.d.device) = [i \in 1..Len(DevicesOf(0)) |-> DevicesOf(0)[i][2]]
        /\ Len(lay.d.mirror) = Cardinality({i \in 1..Len(VdevRows) : IsMirrorRow(VdevRows[i])})
        /\ \A k \in 1..Len(lay.d.mirror) :
              PathsOf(lay.d.mirror[k].device)
                  = [i \in 1..Len(DevicesOf(k)) |-> DevicesOf(k)[i][2]]
        /\ Len(lay.d.device) + SumLen(lay.d.mirror)
              = Cardinality({i \in 1..Len(VdevRows) : ~IsMirrorRow(VdevRows[i])})

\* A striped device, then two mirrors; the second device of the listing is
\* named again in the second mirror.
C21_Witness ==
    /\ lay.pc = "done"
    /\ lay.err = NoError
    /\ VdevRows = <<Str_dev_b, Str_mirror_0, Str_dev_a, Str_mirror_0, Str_dev_a>>
    /\ PathsOf(lay.d.device) = <<Str_dev_b>>
    /\ Len(lay.d.mirror) = 2
    /\ PathsOf(lay.d.mirror[1].device) = <<Str_dev_a>>
    /\ PathsOf(lay.d.mirror[2].device) = <<Str_dev_a>>

\* C22: for a pool listing without rows readPoolLayout returns an error and
\* no layout, never an empty layout, and describePool fails without a
\* command that reads properties.
C22_EmptyListingIsError ==
    (lay.pc = "done" /\ lay.remote.layout = <<>>) =>
        /\ lay.err # NoError
        /\ lay.layout = Nil
        /\ lay.d = [device |-> <<>>, mirror |-> <<>>]
        /\ \A i \in 1..Len(lay.cmds) : lay.cmds[i].verb = "layout"

\* The listing command succeeded and printed nothing: the error is the
\* PoolError of readPoolLayout, and the listing is the only command.
C22_Witness ==
    /\ lay.pc = "done"
    /\ lay.remote.layout = <<>>
    /\ lay.err = ErrorOf("PoolError", "failed to read pool layout")
    /\ Len(lay.cmds) = 1
    /\ lay.cmds[1].text = Str_zpool_list_HPv \o Str_tank

\* C23: every mirror of a layout that readPoolLayout returns holds at least
\* two device paths, whatever the pool listing.
C23_MirrorsHaveTwoDevices ==
    (lay.pc = "done" /\ lay.err = NoError) =>
        \A k \in 1..Len(lay.layout.mirrors) : Len(lay.layout.mirrors[k]) >= 2

\* ------------------------------------- claims on SpecHandlers, commands

\* The verbs of the commands that change the remote host.
MutatingVerbs ==
    {"create", "destroy", "rename", "export", "import", "set", "setnone", "inherit",
     "chown", "chgrp"}

MutatingPositions == {i \in 1..Len(hnd.log) : hnd.log[i].cmd.verb \in MutatingVerbs}

OwnershipPositions == {i \in 1..Len(hnd.log) : hnd.log[i].cmd.verb \in {"chown", "chgrp"}}

\* C29: no chown or chgrp command has the sentinel mountpoint none or legacy
\* as its path, in Create and in Update, whichever ownership attributes are
\* set or changed.
C29_NoOwnershipOnSentinel ==
    hnd.pc = "returned" =>
        \A i \in OwnershipPositions : hnd.log[i].cmd.value \notin {Str_none, Str_legacy}

\* ------------------------------------- claims on SpecDiff, convergence

\* C27: when applyPropertyDiff returns no error, every property of the new
\* declared set, injected overrides included, has on the remote the value
\* that is declared for it, whatever the prior declared set and the observed
\* state were.
C27_DiffConverges ==
    (apd.pc = "done" /\ apd.err = NoError) =>
        \A name \in DOMAIN Desired : RemoteRaw(apd.remote, name) = Raw(Desired[name])

\* The prior and the new declared set are the same, no override replaces a
\* declared value, and every declared value is the observed rawValue.
DeclaredIsObservedRaw ==
    /\ apd.oldProperties = apd.newProperties
    /\ Desired = parsePropertyBlocks(apd.newProperties)
    /\ \A name \in DOMAIN Desired :
          /\ name \in DOMAIN apd.actualProperties
          /\ apd.actualProperties[name].rawValue = Desired[name]

\* C30: a call whose prior and new declared sets are equal and whose declared
\* values all equal the observed rawValue issues no command, also when the
\* observed formatted value is another text than the rawValue.
C30_NoCommandWhenDeclaredIsObservedRaw ==
    (apd.pc = "done" /\ DeclaredIsObservedRaw) => apd.cmds = <<>>

\* ------------------------------------- claims on SpecHandlers, Delete

\* A Delete returned, and the resource whose guid is the stored ID exists on
\* the remote host.
DeleteOfExisting ==
    /\ hnd.pc = "returned"
    /\ hnd.op \in {"resourceDatasetDelete", "resourcePoolDelete"}
    /\ hnd.remote0.status = "available"
    /\ hnd.remote0.guid = hnd.d0.id

\* C28: the destroy command of a Delete is addressed to the resource whose
\* guid is the stored ID, under the name it has on the remote host, also
\* when that is no longer the name recorded in state, and never to a row of
\* the listing that has another guid.
C28_DeleteTargetsStoredGuid ==
    DeleteOfExisting =>
        \A i \in 1..Len(hnd.log) :
            hnd.log[i].cmd.verb = "destroy" =>
                /\ hnd.log[i].cmd.name = hnd.remote0.name
                /\ \A k \in 1..Len(hnd.remote0.others) :
                      hnd.remote0.others[k][1] # hnd.log[i].cmd.name

\* ----------------------------------------------------------- SpecRace

\* One Update of a dataset or of a pool, command by command, while the
\* resource is renamed on the remote host from outside the provider. The
\* provider holds no lock on the remote host: the rename can take place
\* between any two commands.

\* The Update of r's resource under an oracle.
RaceUpdate(r, fail) ==
    IF r.kind = "dataset"
    THEN resourceDatasetUpdate(r.cfg, r.state, r.remote0, r.resetOrder, r.setOrder, fail)
    ELSE resourcePoolUpdate(r.cfg, r.state, r.remote0, r.resetOrder, r.setOrder, fail)

\* The positions of the Update before the Read it ends with: the Read
\* starts with the second listing of names and guids.
UpdatePart(plan) ==
    {i \in 1..Len(plan) : \A k \in 2..i : plan[k].verb # "list"}

\* The name of the resource after the first k commands of the plan.
NameAfter(r, plan, k) ==
    IF \E i \in 1..k : plan[i].verb \in {"rename", "import"}
    THEN r.cfg.name ELSE r.remote0.name

\* The commands after the first k that name the resource as it was called
\* when the k-th command was over.
AddressedAfter(r, plan, k) ==
    {i \in UpdatePart(plan) : i > k /\ Contains(plan[i].text, NameAfter(r, plan, k))}

\* What zfs and zpool print for a name that no longer exists.
MissingRun(cmd) ==
    [stdout |-> Str_empty,
     stderr |-> IF HasPrefix(cmd.text, Str_zpool)
                THEN Str_cannot_open_pool ELSE Str_cannot_open_dataset,
     done |-> TRUE, err |-> Str_EOF]

\* The oracle of an Update whose resource is renamed after its first k
\* commands: the next command that names the resource fails, with the error
\* callSshCommand makes of the remote's answer. r.plan holds the commands
\* the Update was going to issue.
RaceFail(r, k) ==
    LET at == CHOOSE i \in AddressedAfter(r, r.plan, k) :
                  \A j \in AddressedAfter(r, r.plan, k) : i <= j
    IN  [at |-> at, type |-> callSshCommand(MissingRun(r.plan[at])).err.type]

RaceProperties == DeclaredSets({Str_compression, Str_userquota}, MaxDeclared)

RacePoolProperties == DeclaredSets({Str_ashift}, MaxDeclared)

InitRace ==
    /\ \/ \E property \in RaceProperties, prior \in RaceProperties,
             remote \in {x \in HandlerDatasetRemotes :
                            x.status = "available" /\ Str_mountpoint \in DOMAIN x.zfs.all},
             ownership \in HandlerOwnerships :
             \E resetOrder \in Perms(RemovedNames([n \in {Str_mountpoint} |-> Str_mnt],
                                                  prior, property)),
                setOrder \in Perms(DesiredNames([n \in {Str_mountpoint} |-> Str_mnt],
                                                property)) :
                rac = [pc |-> "call", kind |-> "dataset",
                       cfg |-> WithOwnership(
                                   [id |-> Str_101, name |-> Str_tank_ds,
                                    mountpoint |-> Str_mnt, property |-> property,
                                    property_mode |-> "defined", properties |-> EmptyMap,
                                    raw_properties |-> EmptyMap],
                                   ownership),
                       state |-> [id |-> Str_101, name |-> Str_tank_ds,
                                  mountpoint |-> Str_mnt, property |-> prior,
                                  property_mode |-> "defined", properties |-> EmptyMap,
                                  raw_properties |-> EmptyMap],
                       remote0 |-> remote, resetOrder |-> resetOrder, setOrder |-> setOrder,
                       plan |-> <<>>, fail |-> NoFail, outcome |-> Nil, issued |-> 0,
                       renamedAt |-> 0, log |-> <<>>, err |-> NoError]
       \/ \E property \in RacePoolProperties, prior \in RacePoolProperties,
             remote \in {x \in HandlerPoolRemotes : x.status = "available"} :
             \E resetOrder \in Perms(RemovedNames(EmptyMap, prior, property)),
                setOrder \in Perms(DesiredNames(EmptyMap, property)) :
                rac = [pc |-> "call", kind |-> "pool",
                       cfg |-> [id |-> Str_101, name |-> Str_tank, property |-> property,
                                property_mode |-> "defined", properties |-> EmptyMap,
                                raw_properties |-> EmptyMap, layout |-> Nil,
                                mirror |-> <<>>, device |-> <<Str_dev_a>>],
                       state |-> [id |-> Str_101, name |-> Str_tank, property |-> prior,
                                  property_mode |-> "defined", properties |-> EmptyMap,
                                  raw_properties |-> EmptyMap, layout |-> Nil,
                                  mirror |-> <<>>, device |-> <<Str_dev_a>>],
                       remote0 |-> remote, resetOrder |-> resetOrder, setOrder |-> setOrder,
                       plan |-> <<>>, fail |-> NoFail, outcome |-> Nil, issued |-> 0,
                       renamedAt |-> 0, log |-> <<>>, err |-> NoError]
    /\ ups = Idle
    /\ apd = Idle
    /\ cre = Idle
    /\ ren = Idle
    /\ res = Idle
    /\ hnd = Idle
    /\ ssh = Idle
    /\ cls = Idle
    /\ lay = Idle
    /\ rdp = Idle

\* The Update is called. outcome is what the call does under the oracle:
\* its commands and the error it returns.
RaceCall ==
    /\ rac.pc = "call"
    /\ LET Step(update) == rac' = [rac EXCEPT !.pc = "running", !.outcome = update]
       IN  Step(RaceUpdate(rac, rac.fail))
    /\ UNCHANGED <<ups, apd, cre, ren, res, hnd, ssh, cls, lay, rdp>>

\* The Update issues its next command, which meets the remote host as it
\* is by now.
RaceIssue ==
    /\ rac.pc = "running"
    /\ rac.issued < Len(rac.outcome.cmds)
    /\ LET Step(update) == rac' = [rac EXCEPT !.issued = @ + 1, !.outcome = update]
       IN  Step(RaceUpdate(rac, rac.fail))
    /\ UNCHANGED <<ups, apd, cre, ren, res, hnd, ssh, cls, lay, rdp>>

\* Someone renames the resource on the remote host, after the Update
\* resolved its name and while a command that names it is still to come.
ExternalRename ==
    /\ rac.pc = "running"
    /\ rac.renamedAt = 0
    /\ rac.issued >= 1
    /\ AddressedAfter(rac, rac.outcome.cmds, rac.issued) # {}
    /\ LET Step(r) == rac' = [r EXCEPT !.renamedAt = r.issued, !.fail = RaceFail(r, r.issued)]
       IN  Step([rac EXCEPT !.plan = rac.outcome.cmds])
    /\ UNCHANGED <<ups, apd, cre, ren, res, hnd, ssh, cls, lay, rdp>>

\* The Update returns.
RaceReturn ==
    /\ rac.pc = "running"
    /\ rac.issued = Len(rac.outcome.cmds)
    /\ rac' = [rac EXCEPT !.pc = "returned", !.err = rac.outcome.err,
                          !.log = LoggedHandler(rac.outcome)]
    /\ UNCHANGED <<ups, apd, cre, ren, res, hnd, ssh, cls, lay, rdp>>

NextRace ==
    \/ RaceCall
    \/ RaceIssue
    \/ ExternalRename
    \/ RaceReturn

SpecRace == InitRace /\ [][NextRace]_vars

\* The command that fails in an Update whose resource was renamed.
FirstAddressed ==
    CHOOSE i \in AddressedAfter(rac, rac.plan, rac.renamedAt) :
        \A j \in AddressedAfter(rac, rac.plan, rac.renamedAt) : i <= j

\* C26: when the resource is renamed from outside between two commands of
\* an Update, the next command of the Update that names it fails with
\* DatasetNotFound or PoolNotFound, the Update returns that error and issues
\* no command after it; the error is no other kind of error.
C26_RenamedDuringUpdate ==
    (rac.pc = "returned" /\ rac.renamedAt > 0) =>
        /\ Len(rac.log) = FirstAddressed
        /\ \A i \in 1..Len(rac.log) : rac.log[i].ok <=> i < FirstAddressed
        /\ rac.err.type \in {"DatasetError", "PoolError"}
        /\ rac.err = CommandError(rac.err.type, rac.plan[FirstAddressed].text)

\* The dataset was renamed after the first command of the property diff;
\* the next set command failed and the Update returned its error.
C26_Witness ==
    /\ rac.pc = "returned"
    /\ rac.kind = "dataset"
    /\ rac.renamedAt > 0
    /\ rac.plan[rac.renamedAt].verb \in {"inherit", "set", "setnone"}
    /\ rac.log[Len(rac.log)].cmd.verb = "set"
    /\ rac.err.type = "DatasetError"

\* ----------------------------------------------------------- SpecRead

\* One call of readAllProperties on a fresh map, as describeDataset makes
\* it. The remote prints a row in the formatted fetch, in the parsable
\* fetch, or in both.

ModeRow(mode) ==
    [source |-> SourceLocal, value |-> Str_4K, rawValue |-> Str_4096, mode |-> mode]

ReadRows == {Property(SourceLocal, Str_on, Str_on), ModeRow("formatted"), ModeRow("parsable")}

\* compression and mountpoint are printed for 'all', userquota@ only when
\* asked by name.
ReadAnswers ==
    [all : MapsUpTo({Str_compression, Str_mountpoint}, ReadRows, 2),
     extra : MapsUpTo({Str_userquota}, ReadRows, 1)]

ReadRequired ==
    {<<>>, <<Str_compression>>, <<Str_userquota>>, <<Str_compression, Str_userquota>>,
     <<Str_userquota, Str_mountpoint>>}

InitRead ==
    /\ rdp \in [pc : {"call"}, requiredProperties : ReadRequired, answers : ReadAnswers,
                properties : {EmptyMap}, err : {NoError}, cmds : {<<>>}]
    /\ ups = Idle
    /\ apd = Idle
    /\ cre = Idle
    /\ ren = Idle
    /\ res = Idle
    /\ hnd = Idle
    /\ ssh = Idle
    /\ cls = Idle
    /\ lay = Idle
    /\ rac = Idle

ReadAllProperties ==
    /\ rdp.pc = "call"
    /\ \E fail \in Failures(Len(readAllProperties(Str_zfs, Str_tank_ds,
                                    rdp.requiredProperties, EmptyMap, rdp.answers,
                                    NoFail).cmds)) :
         LET Done(r) ==
                 rdp' = [rdp EXCEPT !.pc = "done", !.properties = r.properties,
                                    !.err = r.err, !.cmds = r.cmds]
         IN  Done(readAllProperties(Str_zfs, Str_tank_ds, rdp.requiredProperties,
                                    EmptyMap, rdp.answers, fail))
    /\ UNCHANGED <<ups, apd, cre, ren, res, hnd, ssh, cls, lay, rac>>

NextRead == ReadAllProperties

SpecRead == InitRead /\ [][NextRead]_vars

\* What the remote prints for the required names asked by name.
ExplicitAnswer == Explicit(rdp.answers, Range(rdp.requiredProperties))

\* The call made its second pair of fetches, for the required names.
FetchedExplicit == Len(rdp.cmds) = 4

\* The names some formatted fetch of the call printed.
FetchedFormatted ==
    FormattedRows(rdp.answers.all)
        \cup (IF FetchedExplicit THEN FormattedRows(ExplicitAnswer) ELSE {})

\* The names some parsable fetch of the call printed.
FetchedParsable ==
    ParsableRows(rdp.answers.all)
        \cup (IF FetchedExplicit THEN ParsableRows(ExplicitAnswer) ELSE {})

\* The row the remote holds for a name.
RowOf(name) ==
    IF name \in DOMAIN rdp.answers.all
    THEN rdp.answers.all[name] ELSE rdp.answers.extra[name]

\* C25: after a read that returned no error, a name is in the map only if a
\* formatted fetch printed it (a row that only the parsable fetch prints
\* makes no entry); a name printed by both fetches has the value and the
\* rawValue printed; and every required name that the remote prints when
\* asked by name is in the map, also when 'all' did not print it.
C25_FormattedDecidesMembership ==
    (rdp.pc = "done" /\ rdp.err = NoError) =>
        /\ DOMAIN rdp.properties \subseteq FetchedFormatted
        /\ \A name \in FetchedFormatted \cap FetchedParsable :
              /\ name \in DOMAIN rdp.properties
              /\ rdp.properties[name].value = RowOf(name).value
              /\ rdp.properties[name].rawValue = RowOf(name).rawValue
        /\ \A name \in Range(rdp.requiredProperties) :
              name \in FormattedRows(ExplicitAnswer) => name \in DOMAIN rdp.properties

\* 'all' printed mountpoint in the parsable fetch only and did not print the
\* required userquota@; the map holds userquota@ with both values and has no
\* entry for mountpoint.
C25_Witness ==
    /\ rdp.pc = "done"
    /\ rdp.err = NoError
    /\ Str_mountpoint \in ParsableRows(rdp.answers.all) \ FormattedRows(rdp.answers.all)
    /\ Str_mountpoint \notin DOMAIN rdp.properties
    /\ Str_userquota \in DOMAIN rdp.properties
    /\ rdp.properties[Str_userquota].value = Str_on
    /\ rdp.properties[Str_userquota].rawValue = Str_on
    /\ FetchedExplicit

====
